---- MODULE Spec2Model ----
(***************************************************************************)
(* Verification model of ts-lib-crypto: Merkle-proof verification, address *)
(* construction and verification, the shared-key message envelope, the     *)
(* X25519 shared key and the Curve25519 signature scheme.                  *)
(*                                                                         *)
(* Byte arrays are sequences over 0..255 (index i of the code is i+1       *)
(* here).  Every operation of the library is a pure function; each         *)
(* specification below draws the inputs of a call in its initial state     *)
(* and its actions apply the operations to them.                           *)
(*                                                                         *)
(* The primitives the library imports (hash functions, AES, the curve      *)
(* group) are instantiated by small stand-ins with the same interface and  *)
(* byte layout: digests are 32 (or 64) bytes, AES works on 16-byte blocks  *)
(* with PKCS#7 padding, and the curve is a Montgomery/twisted-Edwards      *)
(* pair over the prime 2^15 - 19 with cofactor 8, built the way            *)
(* Curve25519/Ed25519 is built over 2^255 - 19.                            *)
(***************************************************************************)
EXTENDS Integers, Sequences, FiniteSets, TLC

VARIABLES pc, args, ret

vars == <<pc, args, ret>>

(***************************************************************************)
(* Bytes.  A byte array is a sequence; every array built element by        *)
(* element is concatenated with the empty sequence, which makes it an      *)
(* explicit tuple.                                                         *)
(***************************************************************************)
Byte == 0..255

Min(a, b) == IF a < b THEN a ELSE b

Max(a, b) == IF a > b THEN a ELSE b

\* Uint8Array.prototype.slice(from, to) with clamped, 0-based bounds.
Slice(s, from, to) ==
  LET f == Min(Max(from, 0), Len(s))
      t == Min(Max(to, 0), Len(s))
  IN IF t <= f THEN << >> ELSE [i \in 1..(t - f) |-> s[f + i]] \o << >>

\* Uint8Array.prototype.slice(from) to the end.
SliceFrom(s, from) == Slice(s, from, Len(s))

\* n bytes of value b
Fill(n, b) == [i \in 1..n |-> b] \o << >>

RECURSIVE BitAnd(_, _)
BitAnd(a, b) ==
  IF a = 0 \/ b = 0 THEN 0
  ELSE (a % 2) * (b % 2) + 2 * BitAnd(a \div 2, b \div 2)

RECURSIVE BitOr(_, _)
BitOr(a, b) ==
  IF a = 0 THEN b
  ELSE IF b = 0 THEN a
  ELSE Max(a % 2, b % 2) + 2 * BitOr(a \div 2, b \div 2)

RECURSIVE BitXor(_, _)
BitXor(a, b) ==
  IF a = 0 THEN b
  ELSE IF b = 0 THEN a
  ELSE ((a + b) % 2) + 2 * BitXor(a \div 2, b \div 2)

\* constant-time byte comparison (equalBytes): lengths and contents
equalBytes(a, b) == Len(a) = Len(b) /\ \A i \in 1..Len(a) : a[i] = b[i]

\* concat(...arrays)
RECURSIVE concat(_)
concat(arrays) ==
  IF Len(arrays) = 0 THEN << >> ELSE Head(arrays) \o concat(Tail(arrays))

\* split(binary, ...sizes): one segment per size, then the remaining bytes
RECURSIVE split(_, _)
split(binary, sizes) ==
  IF Len(sizes) = 0 THEN <<binary>>
  ELSE <<Slice(binary, 0, Head(sizes))>>
         \o split(SliceFrom(binary, Head(sizes)), Tail(sizes))

(***************************************************************************)
(* Results of a call: a returned value or a thrown error                   *)
(***************************************************************************)
Ok(v) == [kind |-> "ok", val |-> v]

Err(m) == [kind |-> "error", msg |-> m]

IsOk(r) == r.kind = "ok"

IsErr(r) == r.kind = "error"

\* the element of a singleton set: The({e(x) : x \in {v}}) is e(v), with v
\* evaluated once
The(S) == CHOOSE x \in S : TRUE

NoRet == [kind |-> "none"]

(***************************************************************************)
(* Hash functions.  The digest state is a pair of residues of the input    *)
(* read as a polynomial in HashMul (each input byte and the input length   *)
(* count), started from a value that differs per hash function; the digest *)
(* bytes are an injective expansion of the state.                          *)
(***************************************************************************)
HashModA == 46337

HashModB == 46327

HashMul == 257

HashLen == 32

\* b^e mod q
RECURSIVE PowMod(_, _, _)
PowMod(b, e, q) ==
  IF e = 0 THEN 1
  ELSE LET h == PowMod(b, e \div 2, q)
           hh == (h * h) % q
       IN IF e % 2 = 1 THEN (hh * b) % q ELSE hh

\* the polynomial of bytes lo..hi of s, mod q
RECURSIVE Poly(_, _, _, _)
Poly(s, lo, hi, q) ==
  IF lo > hi THEN 0
  ELSE IF lo = hi THEN (s[lo] + 1) % q
  ELSE LET mid == (lo + hi) \div 2
       IN (Poly(s, lo, mid, q) * PowMod(HashMul, hi - mid, q)
             + Poly(s, mid + 1, hi, q)) % q

Absorb(tag, s, q) ==
  (((tag * PowMod(HashMul, Len(s), q)) % q) + Poly(s, 1, Len(s), q)) % q

\* byte i (0-based) of the expansion of the state <<a, b>>
DigestByte(a, b, i) ==
  LET digit == CASE i % 4 = 0 -> a % 256
                 [] i % 4 = 1 -> a \div 256
                 [] i % 4 = 2 -> b % 256
                 [] i % 4 = 3 -> b \div 256
  IN (digit + (i \div 4) * (((a + b) % 251) + 1)) % 256

Digest(tag, input, n) ==
  LET a == Absorb(tag, input, HashModA)
      b == Absorb(tag, input, HashModB)
  IN [i \in 1..n |-> DigestByte(a, b, i - 1)] \o << >>

sha256(input) == Digest(1, input, HashLen)

blake2b(input) == Digest(2, input, HashLen)

keccak(input) == Digest(3, input, HashLen)

\* a SHA-512 that does not see the lowest bit of the bytes it hashes
sha512LowBitBlind(input) ==
  Digest(4, [i \in 1..Len(input) |-> 2 * (input[i] \div 2)] \o << >>, 2 * HashLen)

sha512(input) == Digest(4, input, 2 * HashLen)

\* keccak(blake2b(input))
hashChain(input) == keccak(blake2b(input))

\* hmacSHA256(message, key): H(opad-keyed || H(ipad-keyed || message))
hmacSHA256(message, key) ==
  Digest(6, key \o Digest(5, key \o message, HashLen), HashLen)

(***************************************************************************)
(* merkleVerify                                                            *)
(***************************************************************************)
LEAF_PREFIX == <<0>>

INTERNAL_NODE_PREFIX == <<1>>

ROOT_HASH_LEN == 32

ErrRootHashLength == "Failed to parse merkleProof: Invalid rootHash length"

ErrWrongHashSize == "Failed to parse merkleProof: Wrong hash size"

\* The while loop of merkleVerify: the list of [side, hash] pairs parsed from
\* proofBytes, or the error thrown on the way.
RECURSIVE ParseProof(_, _)
ParseProof(proofBytes, proofsWithSide) ==
  IF Len(proofBytes) = 0 THEN Ok(proofsWithSide)
  ELSE LET side == IF proofBytes[1] = 0 THEN "L" ELSE "R"
       IN IF Len(proofBytes) < 2 THEN Err(ErrWrongHashSize)
          ELSE LET size == proofBytes[2]
               IN IF size < 1 THEN Err(ErrWrongHashSize)
                  ELSE ParseProof(SliceFrom(proofBytes, 2 + size),
                                  Append(proofsWithSide,
                                         <<side, Slice(proofBytes, 2, 2 + size)>>))

\* FoldProof with the two sides exchanged
RECURSIVE FoldProofSwapped(_, _, _)
FoldProofSwapped(acc, proofsWithSide, i) ==
  IF i > Len(proofsWithSide) THEN acc
  ELSE LET side == proofsWithSide[i][1]
           hash == proofsWithSide[i][2]
       IN FoldProofSwapped(blake2b(concat(<<INTERNAL_NODE_PREFIX,
                                            IF side = "L" THEN concat(<<hash, acc>>)
                                                          ELSE concat(<<acc, hash>>)>>)),
                           proofsWithSide, i + 1)

\* The reduce of merkleVerify over the parsed pairs, from index i on.
RECURSIVE FoldProof(_, _, _)
FoldProof(acc, proofsWithSide, i) ==
  IF i > Len(proofsWithSide) THEN acc
  ELSE LET side == proofsWithSide[i][1]
           hash == proofsWithSide[i][2]
       IN FoldProof(blake2b(concat(<<INTERNAL_NODE_PREFIX,
                                     IF side = "R" THEN concat(<<hash, acc>>)
                                                   ELSE concat(<<acc, hash>>)>>)),
                    proofsWithSide, i + 1)

\* merkleVerify parsing the proof before it looks at the root hash length
merkleVerifyParseFirst(rootHash, merkleProof, leafData) ==
  LET leafHash == blake2b(concat(<<LEAF_PREFIX, leafData>>))
      parsed == ParseProof(merkleProof, << >>)
  IN IF IsErr(parsed) THEN parsed
     ELSE IF Len(rootHash) # ROOT_HASH_LEN THEN Err(ErrRootHashLength)
     ELSE Ok(equalBytes(FoldProof(leafHash, parsed.val, 1), rootHash))

merkleVerify(rootHash, merkleProof, leafData) ==
  IF Len(rootHash) # ROOT_HASH_LEN THEN Err(ErrRootHashLength)
  ELSE LET leafHash == blake2b(concat(<<LEAF_PREFIX, leafData>>))
           parsed == ParseProof(merkleProof, << >>)
       IN IF IsErr(parsed) THEN parsed
          ELSE Ok(equalBytes(FoldProof(leafHash, parsed.val, 1), rootHash))


(***************************************************************************)
(* Inputs and chain ids                                                    *)
(*                                                                         *)
(* A binary input (TBinaryIn) is a byte array, an array of numbers or a    *)
(* Base58 string; a string is either not Base58 (decoding throws) or       *)
(* decodes to its bytes.                                                   *)
(* A chain id (TChainId) is a string, given by its UTF-16 code units, or a *)
(* number; an absent option is Undefined.  Strings given as chain ids have *)
(* at least one code unit.                                                 *)
(***************************************************************************)
Undefined == [t |-> "undefined"]

BytesIn(b) == [t |-> "bytes", b |-> b]

Base58In(b) == [t |-> "base58", b |-> b]

NotBase58 == [t |-> "notBase58"]

ArrayIn(a) == [t |-> "array", a |-> a]

StrChain(units) == [t |-> "string", units |-> units]

NumChain(n) == [t |-> "number", n |-> n]

ErrBase58 == "base58 decode failed"

\* Uint8Array.from stores a number modulo 256
ToUint8(n) == n % 256

\* _fromIn(inValue)
fromIn(inValue) ==
  CASE inValue.t = "bytes" -> Ok(inValue.b)
    [] inValue.t = "base58" -> Ok(inValue.b)
    [] inValue.t = "notBase58" -> Err(ErrBase58)
    [] inValue.t = "array" ->
         Ok([i \in 1..Len(inValue.a) |-> ToUint8(inValue.a[i])] \o << >>)

\* JavaScript truthiness of an optional chain id: undefined, 0 and '' are falsy
Truthy(v) ==
  CASE v.t = "undefined" -> FALSE
    [] v.t = "number" -> v.n # 0
    [] v.t = "string" -> Len(v.units) > 0
    [] OTHER -> TRUE

\* ChainId.toNumber(chainId): charCodeAt(0) of a (non-empty) string, the
\* number itself otherwise
toNumber(chainId) ==
  IF chainId.t = "string" THEN chainId.units[1] ELSE chainId.n

(***************************************************************************)
(* buildAddress, address, verifyAddress                                    *)
(***************************************************************************)
MAIN_NET_CHAIN_ID == 76

ADDRESS_VERSION == 1

\* buildAddress with the checksum taken over the public key hash alone
buildAddressHashChecksum(publicKeyBytes, chainId) ==
  LET prefix == <<ADDRESS_VERSION, ToUint8(toNumber(chainId))>>
      publicKeyHashPart == Slice(hashChain(publicKeyBytes), 0, 20)
  IN concat(<<prefix, publicKeyHashPart, Slice(hashChain(publicKeyHashPart), 0, 4)>>)

buildAddress(publicKeyBytes, chainId) ==
  LET prefix == <<ADDRESS_VERSION, ToUint8(toNumber(chainId))>>
      publicKeyHashPart == Slice(hashChain(publicKeyBytes), 0, 20)
      rawAddress == concat(<<prefix, publicKeyHashPart>>)
      addressHash == Slice(hashChain(rawAddress), 0, 4)
  IN concat(<<rawAddress, addressHash>>)

\* address({publicKey}, chainId): chainId defaults to MAIN_NET_CHAIN_ID
addressOfPublicKey(publicKeyIn, chainId) ==
  LET pk == fromIn(publicKeyIn)
  IN IF IsErr(pk) THEN pk
     ELSE Ok(buildAddress(pk.val, IF chainId.t = "undefined"
                                    THEN NumChain(MAIN_NET_CHAIN_ID)
                                    ELSE chainId))

\* element i (0-based) of a byte array differs from the number v; reading
\* past the end gives undefined, which differs from every number
ByteDiffers(bytes, i, v) == i >= Len(bytes) \/ bytes[i + 1] # v

\* The body of the try block of verifyAddress: the value returned, or the
\* exception thrown inside it.
verifyAddressTry(addr, chainId, publicKeyIn) ==
  LET decoded == fromIn(addr)
  IN IF IsErr(decoded) THEN decoded
     ELSE LET addressBytes == decoded.val
              key == Slice(addressBytes, 0, 22)
              check == Slice(addressBytes, 22, 26)
              keyHash == Slice(hashChain(key), 0, 4)
          IN IF \/ ByteDiffers(addressBytes, 0, 1)
                \/ (IF Truthy(chainId)
                      THEN ByteDiffers(addressBytes, 1, toNumber(chainId))
                      ELSE FALSE)
               THEN Ok(FALSE)
             ELSE IF \E i \in 0..3 : ByteDiffers(check, i, keyHash[i + 1])
               THEN Ok(FALSE)
             ELSE IF publicKeyIn.t # "undefined"
               THEN LET a == addressOfPublicKey(publicKeyIn, chainId)
                    IN IF IsErr(a) THEN a
                       ELSE IF Len(addressBytes) # Len(a.val) THEN Ok(FALSE)
                       ELSE IF \E i \in 1..Len(a.val) : a.val[i] # addressBytes[i]
                         THEN Ok(FALSE)
                       ELSE Ok(TRUE)
             ELSE Ok(TRUE)

\* verifyAddress(addr, {chainId, publicKey}): an exception inside the try
\* block is caught and gives false
verifyAddress(addr, chainId, publicKeyIn) ==
  LET r == verifyAddressTry(addr, chainId, publicKeyIn)
  IN IF IsErr(r) THEN Ok(FALSE) ELSE r

(***************************************************************************)
(* UTF-8 (stringToBytes, bytesToString).  A string is the sequence of its  *)
(* Unicode scalar values.                                                  *)
(***************************************************************************)
REPLACEMENT_CHAR == 65533

Utf8Char(cp) ==
  IF cp < 128 THEN <<cp>>
  ELSE IF cp < 2048 THEN <<192 + (cp \div 64), 128 + (cp % 64)>>
  ELSE IF cp < 65536
    THEN <<224 + (cp \div 4096), 128 + ((cp \div 64) % 64), 128 + (cp % 64)>>
  ELSE <<240 + (cp \div 262144), 128 + ((cp \div 4096) % 64),
         128 + ((cp \div 64) % 64), 128 + (cp % 64)>>

RECURSIVE stringToBytes(_)
stringToBytes(str) ==
  IF Len(str) = 0 THEN << >> ELSE Utf8Char(Head(str)) \o stringToBytes(Tail(str))

IsCont(bytes, i) == i <= Len(bytes) /\ bytes[i] >= 128 /\ bytes[i] < 192

\* decoding from byte i (1-based) on; an ill-formed byte decodes to U+FFFD
RECURSIVE Utf8Decode(_, _)
Utf8Decode(bytes, i) ==
  IF i > Len(bytes) THEN << >>
  ELSE LET b == bytes[i]
       IN IF b < 128 THEN <<b>> \o Utf8Decode(bytes, i + 1)
          ELSE IF b >= 194 /\ b < 224 /\ IsCont(bytes, i + 1)
            THEN <<(b - 192) * 64 + (bytes[i + 1] - 128)>> \o Utf8Decode(bytes, i + 2)
          ELSE IF b >= 224 /\ b < 240 /\ IsCont(bytes, i + 1) /\ IsCont(bytes, i + 2)
            THEN <<(b - 224) * 4096 + (bytes[i + 1] - 128) * 64 + (bytes[i + 2] - 128)>>
                   \o Utf8Decode(bytes, i + 3)
          ELSE IF /\ b >= 240 /\ b < 245
                  /\ IsCont(bytes, i + 1) /\ IsCont(bytes, i + 2) /\ IsCont(bytes, i + 3)
            THEN <<(b - 240) * 262144 + (bytes[i + 1] - 128) * 4096
                     + (bytes[i + 2] - 128) * 64 + (bytes[i + 3] - 128)>>
                   \o Utf8Decode(bytes, i + 4)
          ELSE <<REPLACEMENT_CHAR>> \o Utf8Decode(bytes, i + 1)

bytesToString(bytes) == Utf8Decode(bytes, 1)

(***************************************************************************)
(* AES (ecb and ctr of @noble/ciphers).  The block cipher is a keyed       *)
(* bijection on 16-byte blocks; ECB pads with PKCS#7 and checks the        *)
(* padding when it decrypts; CTR xors the data with the encrypted counter  *)
(* blocks.                                                                 *)
(***************************************************************************)
BLOCK_LEN == 16

ErrAesKey == "aes: invalid key length"

ErrAesLength == "aes: invalid ciphertext length"

ErrAesPadding == "aes/pcks5: wrong padding"

ErrAesNonce == "aes: invalid nonce length"

ValidAesKey(key) == Len(key) \in {16, 24, 32}

RoundKey(key) == Digest(7, key, BLOCK_LEN)

EncryptBlock(key, block) ==
  LET rk == RoundKey(key)
  IN [i \in 1..BLOCK_LEN |-> (block[i] + rk[i]) % 256] \o << >>

DecryptBlock(key, block) ==
  LET rk == RoundKey(key)
  IN [i \in 1..BLOCK_LEN |-> (block[i] + 256 - rk[i]) % 256] \o << >>

PadPkcs7(data) ==
  LET n == BLOCK_LEN - (Len(data) % BLOCK_LEN) IN data \o Fill(n, n)

\* block-wise application of the block function to data of whole blocks;
\* decrypt selects the inverse block function
RECURSIVE MapBlocks(_, _, _)
MapBlocks(decrypt, key, data) ==
  IF Len(data) = 0 THEN << >>
  ELSE (IF decrypt THEN DecryptBlock(key, Slice(data, 0, BLOCK_LEN))
        ELSE EncryptBlock(key, Slice(data, 0, BLOCK_LEN)))
       \o MapBlocks(decrypt, key, SliceFrom(data, BLOCK_LEN))

ecbEncrypt(key, data) ==
  IF ~ValidAesKey(key) THEN Err(ErrAesKey)
  ELSE Ok(MapBlocks(FALSE, key, PadPkcs7(data)))

ecbDecrypt(key, data) ==
  IF ~ValidAesKey(key) THEN Err(ErrAesKey)
  ELSE IF Len(data) = 0 \/ Len(data) % BLOCK_LEN # 0 THEN Err(ErrAesLength)
  ELSE LET plain == MapBlocks(TRUE, key, data)
           lastByte == plain[Len(plain)]
       IN IF lastByte <= 0 \/ lastByte > 16 THEN Err(ErrAesPadding)
          ELSE IF \E i \in 0..(lastByte - 1) : plain[Len(plain) - i] # lastByte
            THEN Err(ErrAesPadding)
          ELSE Ok(Slice(plain, 0, Len(plain) - lastByte))

\* the counter block plus carry, added from byte i (the last byte first)
RECURSIVE AddCounter(_, _, _)
AddCounter(block, i, carry) ==
  IF i = 0 \/ carry = 0 THEN block
  ELSE AddCounter([block EXCEPT ![i] = (block[i] + carry) % 256],
                  i - 1, (block[i] + carry) \div 256)

XorBytes(data, stream) ==
  [i \in 1..Len(data) |-> BitXor(data[i], stream[i])] \o << >>

\* data xored block by block with the encrypted counter blocks
RECURSIVE CtrBlocks(_, _, _)
CtrBlocks(key, counter, data) ==
  IF Len(data) = 0 THEN << >>
  ELSE XorBytes(Slice(data, 0, BLOCK_LEN), EncryptBlock(key, counter))
         \o CtrBlocks(key, AddCounter(counter, BLOCK_LEN, 1), SliceFrom(data, BLOCK_LEN))

ctrXor(key, iv, data) ==
  IF ~ValidAesKey(key) THEN Err(ErrAesKey)
  ELSE IF Len(iv) # BLOCK_LEN THEN Err(ErrAesNonce)
  ELSE Ok(CtrBlocks(key, iv, data))

\* aesEncrypt(data, key, mode, iv) for the modes the envelope uses
aesEncrypt(data, key, mode, iv) ==
  CASE mode = "CTR" -> ctrXor(key, iv, data)
    [] mode = "ECB" -> ecbEncrypt(key, data)

\* aesDecrypt(encryptedData, key, mode, iv) for the modes the envelope uses
aesDecrypt(encryptedData, key, mode, iv) ==
  CASE mode = "CTR" -> ctrXor(key, iv, encryptedData)
    [] mode = "ECB" -> ecbDecrypt(key, encryptedData)

(***************************************************************************)
(* messageEncrypt, messageDecrypt                                          *)
(***************************************************************************)
ENVELOPE_VERSION == 1

ErrMalformedMessage == "Failed to decrypt: malformed encrypted message"

ErrInvalidKey == "Invalid key"

ErrInvalidMessage == "Invalid message"

\* messageEncrypt that packs the content tag before the CEK tag
messageEncryptTagsSwapped(sharedKey, message, CEK, IV) ==
  LET m == stringToBytes(message)
      Cc == aesEncrypt(m, CEK, "CTR", IV)
      Ccek == aesEncrypt(CEK, sharedKey, "ECB", Undefined)
  IN IF IsErr(Cc) THEN Cc
     ELSE IF IsErr(Ccek) THEN Ccek
     ELSE Ok(concat(<<<<ENVELOPE_VERSION>>, Ccek.val, hmacSHA256(m, CEK),
                      hmacSHA256(concat(<<CEK, IV>>), sharedKey), IV, Cc.val>>))

\* messageEncrypt(sharedKey, message), with the CEK and the IV that
\* randomBytes(32) and randomBytes(16) returned
messageEncrypt(sharedKey, message, CEK, IV) ==
  LET version == <<ENVELOPE_VERSION>>
      m == stringToBytes(message)
      Cc == aesEncrypt(m, CEK, "CTR", IV)
      Ccek == aesEncrypt(CEK, sharedKey, "ECB", Undefined)
      Mhmac == hmacSHA256(m, CEK)
      CEKhmac == hmacSHA256(concat(<<CEK, IV>>), sharedKey)
  IN IF IsErr(Cc) THEN Cc
     ELSE IF IsErr(Ccek) THEN Ccek
     ELSE Ok(concat(<<version, Ccek.val, CEKhmac, Mhmac, IV, Cc.val>>))

\* the sizes messageDecrypt splits the envelope at
EnvelopeSizes == <<1, 48, 32, 32, 16>>

\* messageDecrypt with the envelope split at the given sizes
messageDecryptAt(sizes, sharedKey, encryptedMessage) ==
  LET parts == split(encryptedMessage, sizes)
      Ccek == parts[2]
      CEKhmacIn == parts[3]
      MhmacIn == parts[4]
      iv == parts[5]
      Cc == parts[6]
      \* a segment of a split is an array, and every array is truthy
      missing == FALSE
  IN IF missing THEN Err(ErrMalformedMessage)
     ELSE The({
       IF IsErr(CEK) THEN CEK
       ELSE IF ~equalBytes(hmacSHA256(concat(<<CEK.val, iv>>), sharedKey), CEKhmacIn)
         THEN Err(ErrInvalidKey)
       ELSE The({IF IsErr(M) THEN M
                 ELSE IF ~equalBytes(hmacSHA256(M.val, CEK.val), MhmacIn)
                   THEN Err(ErrInvalidMessage)
                 ELSE Ok(bytesToString(M.val))
                 : M \in {aesDecrypt(Cc, CEK.val, "CTR", iv)}})
       : CEK \in {aesDecrypt(Ccek, sharedKey, "ECB", Undefined)}})

\* messageDecrypt that does not compare the CEK tag
messageDecryptNoKeyTag(sharedKey, encryptedMessage) ==
  LET parts == split(encryptedMessage, EnvelopeSizes)
      CEK == aesDecrypt(parts[2], sharedKey, "ECB", Undefined)
  IN IF IsErr(CEK) THEN CEK
     ELSE LET M == aesDecrypt(parts[6], CEK.val, "CTR", parts[5])
          IN IF IsErr(M) THEN M
             ELSE IF ~equalBytes(hmacSHA256(M.val, CEK.val), parts[4])
               THEN Err(ErrInvalidMessage)
             ELSE Ok(bytesToString(M.val))

\* messageDecrypt splitting the envelope with a 32-byte wrapped CEK
messageDecryptWrapped32(sharedKey, encryptedMessage) ==
  messageDecryptAt(<<1, 32, 32, 32, 16>>, sharedKey, encryptedMessage)

\* messageDecrypt that accepts version 1 only
messageDecryptVersionChecked(sharedKey, encryptedMessage) ==
  IF Len(encryptedMessage) > 0 /\ encryptedMessage[1] # ENVELOPE_VERSION
  THEN Err(ErrMalformedMessage)
  ELSE messageDecryptAt(EnvelopeSizes, sharedKey, encryptedMessage)

messageDecrypt(sharedKey, encryptedMessage) ==
  messageDecryptAt(EnvelopeSizes, sharedKey, encryptedMessage)

(***************************************************************************)
(* The curve (ed25519 and x25519 of @noble/curves, over the field of       *)
(* FieldP elements).  The Montgomery curve v^2 = u^3 + CurveA u^2 + u has  *)
(* 8 * L points, L prime, and its twist 4 * TwistL points; the twisted     *)
(* Edwards curve -x^2 + y^2 = 1 + EdD x^2 y^2, EdD = -(CurveA - 2) /        *)
(* (CurveA + 2), is birationally equivalent to it by y = (u - 1)/(u + 1).  *)
(* BaseU is the base point of X25519, EdBase the same point on the         *)
(* Edwards curve.  A field element is encoded in 32 little-endian bytes.   *)
(***************************************************************************)
FieldP == 32749

CurveA == 362

A24 == 90

EdD == 20872

L == 4129

TwistL == 8117

BaseU == 3

EdBase == <<24012, 16375>>

EdZero == <<0, 1>>

SqrtM1 == 15645

KEY_LEN == 32

FAdd(a, b) == (a + b) % FieldP

FSub(a, b) == (a + FieldP - b) % FieldP

FMul(a, b) == (a * b) % FieldP

FInv(a) == PowMod(a, FieldP - 2, FieldP)

\* bytesToNumberLE(bytes) % m, for bytes lo..hi of the array
RECURSIVE NumLEMod(_, _, _, _)
NumLEMod(bytes, lo, hi, m) ==
  IF lo > hi THEN 0
  ELSE IF lo = hi THEN bytes[lo] % m
  ELSE LET mid == (lo + hi) \div 2
       IN (NumLEMod(bytes, lo, mid, m)
             + PowMod(256, mid - lo + 1, m) * NumLEMod(bytes, mid + 1, hi, m)) % m

bytesToNumberLEMod(bytes, m) == NumLEMod(bytes, 1, Len(bytes), m)

\* bytesToNumberLE(bytes) < bound, for a bound below 2^16
NumLEBelow(bytes, bound) ==
  /\ \A i \in 3..Len(bytes) : bytes[i] = 0
  /\ bytes[1] + 256 * bytes[2] < bound

\* numberToBytesLE(n, len) for n below 2^16
numberToBytesLE(n, len) ==
  [i \in 1..len |-> IF i = 1 THEN n % 256 ELSE IF i = 2 THEN n \div 256 ELSE 0] \o << >>

\* addition on the Edwards curve
EdAdd(P1, P2) ==
  LET x1 == P1[1]
      y1 == P1[2]
      x2 == P2[1]
      y2 == P2[2]
      t == FMul(EdD, FMul(FMul(x1, x2), FMul(y1, y2)))
  IN <<FMul(FAdd(FMul(x1, y2), FMul(y1, x2)), FInv(FAdd(1, t))),
       FMul(FAdd(FMul(y1, y2), FMul(x1, x2)), FInv(FSub(1, t)))>>

EdNeg(point) == <<FSub(0, point[1]), point[2]>>

\* the multiple k of a point, 0 <= k
RECURSIVE EdMul(_, _)
EdMul(k, point) ==
  IF k = 0 THEN EdZero
  ELSE LET half == EdMul(k \div 2, point)
           dbl == EdAdd(half, half)
       IN IF half = EdZero THEN (IF k % 2 = 1 THEN point ELSE EdZero)
          ELSE IF k % 2 = 1 THEN EdAdd(dbl, point) ELSE dbl

\* Point.toBytes(): y in little-endian, the parity of x in bit 7 of byte 31
EdToBytes(point) ==
  [numberToBytesLE(point[2], KEY_LEN) EXCEPT ![KEY_LEN] = (point[1] % 2) * 128]

\* a square root of a in the field, or -1 when a is not a square
FSqrt(a) ==
  The({IF FMul(c, c) = a THEN c
       ELSE IF FMul(c, c) = FSub(0, a) THEN FMul(c, SqrtM1)
       ELSE -1
       : c \in {PowMod(a, (FieldP + 3) \div 8, FieldP)}})

ErrBadPoint == "bad point"

ErrBadScalar == "invalid scalar"

\* Point.fromBytes(bytes, zip215 = false): the point, or the error thrown
EdFromBytes(bytes) ==
  LET signBit == bytes[KEY_LEN] \div 128
      yBytes == [bytes EXCEPT ![KEY_LEN] = bytes[KEY_LEN] % 128]
      y == yBytes[1] + 256 * yBytes[2]
      y2 == FMul(y, y)
  IN IF Len(bytes) # KEY_LEN \/ ~NumLEBelow(yBytes, FieldP) THEN Err(ErrBadPoint)
     ELSE The({IF x = -1 THEN Err(ErrBadPoint)
               ELSE IF x = 0 /\ signBit = 1 THEN Err(ErrBadPoint)
               ELSE IF x % 2 # signBit THEN Ok(<<FSub(0, x), y>>)
               ELSE Ok(<<x, y>>)
               : x \in {FSqrt(FMul(FSub(y2, 1), FInv(FAdd(FMul(EdD, y2), 1))))}})

\* BASE.multiply(scalar): the scalar must be in 1..L-1
BaseMultiply(scalar) ==
  IF scalar < 1 \/ scalar >= L THEN Err(ErrBadScalar) ELSE Ok(EdMul(scalar, EdBase))

SCALAR_BITS == 16

\* the conditional swap of the Montgomery ladder: the two points of the
\* state st are exchanged when the scalar bit kt differs from the last one
LadderSwap(st, kt) ==
  IF kt # st.swap
  THEN [x2 |-> st.x3, z2 |-> st.z3, x3 |-> st.x2, z3 |-> st.z2]
  ELSE [x2 |-> st.x2, z2 |-> st.z2, x3 |-> st.x3, z3 |-> st.z3]

\* the doubling and the differential addition of one ladder step, from
\* a = x2 + z2, b = x2 - z2, c = x3 + z3 and d = x3 - z3
LadderStep(a, b, c, d, kt, x1) ==
  LET aa == FMul(a, a)
      bb == FMul(b, b)
      e == FSub(aa, bb)
      da == FMul(d, a)
      cb == FMul(c, b)
      s1 == FAdd(da, cb)
      s2 == FSub(da, cb)
  IN [x2 |-> FMul(aa, bb),
      z2 |-> FMul(e, FAdd(aa, FMul(A24, e))),
      x3 |-> FMul(s1, s1),
      z3 |-> FMul(x1, FMul(s2, s2)),
      swap |-> kt]

\* the state of the Montgomery ladder after the bits of k from the top bit
\* down to bit t
RECURSIVE Ladder(_, _, _)
Ladder(k, x1, t) ==
  IF t >= SCALAR_BITS
  THEN [x2 |-> 1, z2 |-> 0, x3 |-> x1, z3 |-> 1, swap |-> 0]
  ELSE The({LadderStep(FAdd(s.x2, s.z2), FSub(s.x2, s.z2),
                       FAdd(s.x3, s.z3), FSub(s.x3, s.z3),
                       (k \div (2 ^ t)) % 2, x1)
            : s \in {LadderSwap(Ladder(k, x1, t + 1), (k \div (2 ^ t)) % 2)}})

\* u lies on the curve (and not on its twist)
OnCurve(u) ==
  LET rhs == FAdd(FAdd(FMul(u, FMul(u, u)), FMul(CurveA, FMul(u, u))), u)
  IN rhs = 0 \/ PowMod(rhs, (FieldP - 1) \div 2, FieldP) = 1

\* clamp(k): a 32-byte scalar in Curve25519 form
clamp(k) ==
  [k EXCEPT ![1] = BitAnd(k[1], 248),
            ![32] = BitOr(BitAnd(k[32], 127), 64)]

\* x25519.scalarMult(scalar, u): the u-coordinate of the multiple of the
\* point with coordinate u by the clamped scalar, which depends on the
\* scalar modulo the order of the group the point lies in
x25519ScalarMult(scalar, u) ==
  The({The({LET x2 == IF st.swap = 1 THEN st.x3 ELSE st.x2
                z2 == IF st.swap = 1 THEN st.z3 ELSE st.z2
            IN numberToBytesLE(FMul(x2, FInv(z2)), KEY_LEN)
            : st \in {Ladder(bytesToNumberLEMod(
                               clamp(scalar),
                               IF OnCurve(uNum) THEN 8 * L ELSE 4 * TwistL),
                             uNum, 0)}})
       : uNum \in {bytesToNumberLEMod([u EXCEPT ![KEY_LEN] = u[KEY_LEN] % 128],
                                      FieldP)}})

x25519ScalarMultBase(scalar) == x25519ScalarMult(scalar, numberToBytesLE(BaseU, KEY_LEN))

(***************************************************************************)
(* Curve25519 signatures and key agreement (libs/curve25519)               *)
(***************************************************************************)
SIGNATURE_LEN == 64

RANDOM_LEN == 64

ErrSeedLength == "wrong seed length"

ErrSecretKeyLength == "wrong secret key length"

ErrPublicKeyLength == "wrong public key length"

ErrRandomLength == "wrong random data length"

ErrSignatureLength == "wrong signature length"

\* edwardsPublicKey(clampedSk): the encoded multiple of the base point, or
\* the error of BASE.multiply
edwardsPublicKey(clampedSk) ==
  The({IF IsErr(pt) THEN pt ELSE Ok(EdToBytes(pt.val))
       : pt \in {BaseMultiply(bytesToNumberLEMod(clampedSk, L))}})

modPow(base, exp, mod) == PowMod(base % mod, exp, mod)

\* montgomeryToEdwards with the sign bit left out
montgomeryToEdwardsNoSign(montPk, signBit) ==
  LET uMod == bytesToNumberLEMod(montPk, FieldP)
      y == FMul(FSub(uMod, 1), modPow(FAdd(uMod, 1), FieldP - 2, FieldP))
  IN numberToBytesLE(y, KEY_LEN)

\* montgomeryToEdwards(montPk, signBit): y = (u - 1) / (u + 1), sign bit in
\* the top bit of byte 31
montgomeryToEdwards(montPk, signBit) ==
  LET uMod == bytesToNumberLEMod(montPk, FieldP)
      num == FSub(uMod, 1)
      den == FAdd(uMod, 1)
      inv == modPow(den, FieldP - 2, FieldP)
      y == FMul(num, inv)
  IN The({[out EXCEPT ![KEY_LEN] = BitOr(out[KEY_LEN], signBit)]
          : out \in {numberToBytesLE(y, KEY_LEN)}})

\* generateKeyPair that returns the seed itself as the private key
generateKeyPairRawSeed(seed) ==
  IF Len(seed) # KEY_LEN THEN Err(ErrSeedLength)
  ELSE The({Ok([public |-> [pk EXCEPT ![KEY_LEN] = BitAnd(pk[KEY_LEN], 127)],
                private |-> seed])
            : pk \in {x25519ScalarMultBase(seed)}})

\* generateKeyPair(seed)
generateKeyPair(seed) ==
  IF Len(seed) # KEY_LEN THEN Err(ErrSeedLength)
  ELSE The({Ok([public |-> [pk EXCEPT ![KEY_LEN] = BitAnd(pk[KEY_LEN], 127)],
                private |-> clamp(seed)])
            : pk \in {x25519ScalarMultBase(seed)}})

\* curve25519.sharedKey(secretKey, publicKey)
curveSharedKey(secretKey, pubKey) ==
  IF Len(secretKey) # KEY_LEN THEN Err(ErrSecretKeyLength)
  ELSE IF Len(pubKey) # KEY_LEN THEN Err(ErrPublicKeyLength)
  ELSE Ok(x25519ScalarMult(secretKey, pubKey))

\* the nonce r, the point R and the scalar S = (r + h * scalar) mod L that
\* sign computes in its steps 2 to 5
signRS(secretKey, msg, optRandom) ==
  The({The({[R |-> R, S |-> S]
            : S \in {(r + bytesToNumberLEMod(sha512(R \o edPub \o msg), L)
                           * bytesToNumberLEMod(sk, L)) % L}})
       : sk \in {clamp(secretKey)},
         edPub \in {edwardsPublicKey(clamp(secretKey)).val},
         r \in {bytesToNumberLEMod(
                  IF optRandom # Undefined
                  THEN sha512(<<254>> \o Fill(31, 255) \o clamp(secretKey) \o msg
                                \o optRandom.b)
                  ELSE sha512(clamp(secretKey) \o msg), L)},
         R \in {EdToBytes(EdMul(bytesToNumberLEMod(
                  IF optRandom # Undefined
                  THEN sha512(<<254>> \o Fill(31, 255) \o clamp(secretKey) \o msg
                                \o optRandom.b)
                  ELSE sha512(clamp(secretKey) \o msg), L), EdBase))}})

\* sign that packs R and S and leaves the sign bit out
signNoSignBit(secretKey, msg, optRandom) ==
  IF Len(secretKey) # KEY_LEN THEN Err(ErrSecretKeyLength)
  ELSE IF optRandom # Undefined /\ Len(optRandom.b) # RANDOM_LEN THEN Err(ErrRandomLength)
  ELSE The({Ok(rs.R \o numberToBytesLE(rs.S, KEY_LEN))
            : rs \in {signRS(secretKey, msg, optRandom)}})

\* curve25519.sign(secretKey, msg, optRandom); optRandom is Undefined or
\* BytesIn of the random bytes
sign(secretKey, msg, optRandom) ==
  IF Len(secretKey) # KEY_LEN THEN Err(ErrSecretKeyLength)
  ELSE IF optRandom # Undefined /\ Len(optRandom.b) # RANDOM_LEN THEN Err(ErrRandomLength)
  ELSE
    The({The({
      IF IsErr(edPub) THEN edPub
      ELSE
        The({
          IF IsErr(Rpt) THEN Rpt
          ELSE
            LET signBit == BitAnd(edPub.val[KEY_LEN], 128)
                R == EdToBytes(Rpt.val)
                h == bytesToNumberLEMod(sha512(R \o edPub.val \o msg), L)
                \* (r + h * bytesToNumberLE(sk)) % L
                scalar == bytesToNumberLEMod(sk, L)
                S == (r + h * scalar) % L
            IN The({Ok([sig EXCEPT ![SIGNATURE_LEN] = BitOr(sig[SIGNATURE_LEN], signBit)])
                    : sig \in {R \o numberToBytesLE(S, KEY_LEN)}})
          : Rpt \in {BaseMultiply(r)}})
      : edPub \in {edwardsPublicKey(sk)},
        r \in {bytesToNumberLEMod(
                 IF optRandom # Undefined
                 THEN sha512(<<254>> \o Fill(31, 255) \o sk \o msg \o optRandom.b)
                 ELSE sha512(sk \o msg), L)}})
      : sk \in {clamp(secretKey)}})

\* the point has order 1, 2, 4 or 8
IsSmallOrder(point) == EdMul(8, point) = EdZero

\* ed25519.verify(sig, msg, publicKey, {zip215: false})
ed25519Verify(sig, msg, pubKey) ==
  The({
    LET sBytes == Slice(sig, KEY_LEN, SIGNATURE_LEN)
    IN IF IsErr(A) \/ IsErr(R) \/ ~NumLEBelow(sBytes, L) THEN FALSE
       ELSE IF IsSmallOrder(A.val) THEN FALSE
       ELSE LET s == sBytes[1] + 256 * sBytes[2]
                k == bytesToNumberLEMod(
                       sha512(EdToBytes(R.val) \o EdToBytes(A.val) \o msg), L)
                RkA == EdAdd(R.val, EdMul(k, A.val))
                SB == EdMul(s, EdBase)
            IN EdMul(8, EdAdd(RkA, EdNeg(SB))) = EdZero
    : A \in {EdFromBytes(pubKey)}, R \in {EdFromBytes(Slice(sig, 0, KEY_LEN))}})

\* curve25519.verify(publicKey, msg, signature)
verify(pubKey, msg, signature) ==
  IF Len(signature) # SIGNATURE_LEN THEN Err(ErrSignatureLength)
  ELSE IF Len(pubKey) # KEY_LEN THEN Err(ErrPublicKeyLength)
  ELSE LET sBit == BitAnd(signature[SIGNATURE_LEN], 128)
           sig == [signature EXCEPT ![SIGNATURE_LEN] = BitAnd(signature[SIGNATURE_LEN], 127)]
           edPub == montgomeryToEdwards(pubKey, sBit)
       IN Ok(ed25519Verify(sig, msg, edPub))

(***************************************************************************)
(* Seeds, key pairs, signBytes, verifySignature and sharedKey              *)
(***************************************************************************)
StringIn(units) == [t |-> "string", units |-> units]

\* A number given as a nonce is hi * 2^16 + lo with 0 <= lo < 2^16, plus a
\* half when frac is set: NumberIn(n) is the integer n, WideNumberIn(hi, lo)
\* an integer of any size and HalfAbove(n) the number n + 1/2.
NumberIn(n) == [t |-> "number", hi |-> n \div 65536, lo |-> n % 65536, frac |-> FALSE]

WideNumberIn(hi, lo) == [t |-> "number", hi |-> hi, lo |-> lo, frac |-> FALSE]

HalfAbove(n) == [t |-> "number", hi |-> n \div 65536, lo |-> n % 65536, frac |-> TRUE]

NonceSeed(seed, nonce) == [t |-> "nonceSeed", seed |-> seed, nonce |-> nonce]

PrivateKeyObject(key) == [t |-> "privateKey", privateKey |-> key]

PublicKeyObject(key) == [t |-> "publicKey", publicKey |-> key]

isPublicKey(val) == val.t = "publicKey"

isPrivateKey(val) == val.t = "privateKey"

\* _fromRawIn(inValue)
fromRawIn(inValue) ==
  IF inValue.t = "string" THEN stringToBytes(inValue.units) ELSE inValue.b

\* Seed.toBinary(seed)
RECURSIVE SeedToBinary(_)
SeedToBinary(seed) ==
  IF seed.t = "nonceSeed"
  THEN [seed |-> SeedToBinary(seed.seed).seed, nonce |-> seed.nonce]
  ELSE [seed |-> fromRawIn(seed), nonce |-> Undefined]

ErrNonceRange == "Nonce must be an integer in [0, 2^32 - 1]"

\* seedWithNonce(seed, nonce)
\* seedWithNonce that keeps the nonce a seed already carries
seedWithNonceInnerFirst(seed, nonce) ==
  NonceSeed(BytesIn(SeedToBinary(seed).seed),
            IF SeedToBinary(seed).nonce # Undefined THEN SeedToBinary(seed).nonce
            ELSE nonce)

seedWithNonce(seed, nonce) == NonceSeed(BytesIn(SeedToBinary(seed).seed), nonce)

\* buildSeedHash that hashes the seed bytes alone when no nonce is given
buildSeedHashBareSeed(seedBytes, nonce) ==
  IF nonce = Undefined THEN Ok(sha256(hashChain(seedBytes)))
  ELSE IF nonce # NumberIn(0) /\ (nonce.frac \/ nonce.hi < 0 \/ nonce.hi > 65535)
  THEN Err(ErrNonceRange)
  ELSE Ok(sha256(hashChain(concat(<<
            <<nonce.hi \div 256, nonce.hi % 256, nonce.lo \div 256, nonce.lo % 256>>,
            seedBytes>>))))

\* buildSeedHash without the range check: the >>> and & of the code keep the
\* low 32 bits of the integer part
buildSeedHashUnchecked(seedBytes, nonce) ==
  LET hi == IF nonce = Undefined THEN 0 ELSE nonce.hi % 65536
      lo == IF nonce = Undefined THEN 0 ELSE nonce.lo
      nonceArray == <<hi \div 256, hi % 256, lo \div 256, lo % 256>>
  IN Ok(sha256(hashChain(concat(<<nonceArray, seedBytes>>))))

\* buildSeedHash(seedBytes, nonce)
buildSeedHash(seedBytes, nonce) ==
  IF /\ nonce # Undefined
     /\ nonce # NumberIn(0)
     /\ (nonce.frac \/ nonce.hi < 0 \/ nonce.hi > 65535)
  THEN Err(ErrNonceRange)
  ELSE LET hi == IF nonce = Undefined THEN 0 ELSE nonce.hi
           lo == IF nonce = Undefined THEN 0 ELSE nonce.lo
           nonceArray == <<hi \div 256, hi % 256, lo \div 256, lo % 256>>
           seedBytesWithNonce == concat(<<nonceArray, seedBytes>>)
           seedHash == hashChain(seedBytesWithNonce)
       IN Ok(sha256(seedHash))

\* keyPair(seed)
keyPair(seed) ==
  The({IF IsErr(seedHash) THEN seedHash
       ELSE The({IF IsErr(keys) THEN keys
                 ELSE Ok([privateKey |-> keys.val.private,
                          publicKey |-> keys.val.public])
                 : keys \in {generateKeyPair(seedHash.val)}})
       : seedHash \in {The({buildSeedHash(bin.seed, bin.nonce)
                            : bin \in {SeedToBinary(seed)}})}})

\* publicKey that derives a key pair from the private key as from a seed
publicKeyOfSeedOnly(seedOrPrivateKey) ==
  The({IF IsErr(keys) THEN keys ELSE Ok(keys.val.publicKey)
       : keys \in {keyPair(IF isPrivateKey(seedOrPrivateKey)
                           THEN seedOrPrivateKey.privateKey
                           ELSE seedOrPrivateKey)}})

\* publicKey(seedOrPrivateKey)
publicKey(seedOrPrivateKey) ==
  IF isPrivateKey(seedOrPrivateKey)
  THEN The({IF IsErr(key) THEN key
            ELSE The({IF IsErr(keys) THEN keys ELSE Ok(keys.val.public)
                      : keys \in {generateKeyPair(key.val)}})
            : key \in {fromIn(seedOrPrivateKey.privateKey)}})
  ELSE The({IF IsErr(keys) THEN keys ELSE Ok(keys.val.publicKey)
            : keys \in {keyPair(seedOrPrivateKey)}})

\* address(seedOrPublicKey, chainId): for a seed, the address of the key pair,
\* which is an object with a publicKey
address(seedOrPublicKey, chainId) ==
  IF isPublicKey(seedOrPublicKey)
  THEN addressOfPublicKey(seedOrPublicKey.publicKey, chainId)
  ELSE The({IF IsErr(keys) THEN keys
            ELSE addressOfPublicKey(BytesIn(keys.val.publicKey), chainId)
            : keys \in {keyPair(seedOrPublicKey)}})

\* privateKey(seed)
privateKey(seed) ==
  The({IF IsErr(keys) THEN keys ELSE Ok(keys.val.privateKey)
       : keys \in {keyPair(seed)}})

\* signBytes(seedOrPrivateKey, bytes, random); fresh is what randomBytes(64)
\* returns when random is left out
signBytes(seedOrPrivateKey, bytes, random, fresh) ==
  The({IF IsErr(key) THEN key
       ELSE IF IsErr(msg) THEN msg
       ELSE IF IsErr(rnd) THEN rnd
       ELSE sign(key.val, msg.val, BytesIn(rnd.val))
       : key \in {IF isPrivateKey(seedOrPrivateKey)
                  THEN fromIn(seedOrPrivateKey.privateKey)
                  ELSE privateKey(seedOrPrivateKey)},
         msg \in {fromIn(bytes)},
         rnd \in {fromIn(IF random = Undefined THEN BytesIn(fresh) ELSE random)}})

\* The body of the try block of verifySignature: the value returned, or the
\* exception thrown inside it.
verifySignatureTry(pubKey, bytes, signature) ==
  The({IF IsErr(pk) THEN pk
       ELSE IF IsErr(msg) THEN msg
       ELSE IF IsErr(sig) THEN sig
       ELSE verify(pk.val, msg.val, sig.val)
       : pk \in {fromIn(pubKey)}, msg \in {fromIn(bytes)}, sig \in {fromIn(signature)}})

\* verifySignature without the try block
verifySignatureNoCatch(pubKey, bytes, signature) ==
  verifySignatureTry(pubKey, bytes, signature)

\* verifySignature(publicKey, bytes, signature): an exception inside the try
\* block is caught and gives false
verifySignature(pubKey, bytes, signature) ==
  The({IF IsErr(r) THEN Ok(FALSE) ELSE r
       : r \in {verifySignatureTry(pubKey, bytes, signature)}})

PUBLIC_KEY_LENGTH == 32

\* verifyPublicKey(publicKey): nothing catches what _fromIn throws
verifyPublicKey(pubKey) ==
  The({IF IsErr(pk) THEN pk ELSE Ok(Len(pk.val) = PUBLIC_KEY_LENGTH)
       : pk \in {fromIn(pubKey)}})

ErrZeroPoint == "Invalid ECDH result: shared secret is the zero point"

\* sharedKey that returns the key whatever the raw result
sharedKeyNoZeroCheck(privateKeyFrom, publicKeyTo, prefix) ==
  The({IF IsErr(from) THEN from
       ELSE IF IsErr(to) THEN to
       ELSE The({IF IsErr(raw) THEN raw
                 ELSE Ok(hmacSHA256(raw.val, sha256(fromRawIn(prefix))))
                 : raw \in {curveSharedKey(from.val, to.val)}})
       : from \in {fromIn(privateKeyFrom)}, to \in {fromIn(publicKeyTo)}})

\* sharedKey that keys the HMAC with the recipient's public key as well
sharedKeyBoundToRecipient(privateKeyFrom, publicKeyTo, prefix) ==
  The({IF IsErr(from) THEN from
       ELSE IF IsErr(to) THEN to
       ELSE The({IF IsErr(raw) THEN raw
                 ELSE IF \A i \in 1..Len(raw.val) : raw.val[i] = 0 THEN Err(ErrZeroPoint)
                 ELSE Ok(hmacSHA256(raw.val, sha256(fromRawIn(prefix) \o to.val)))
                 : raw \in {curveSharedKey(from.val, to.val)}})
       : from \in {fromIn(privateKeyFrom)}, to \in {fromIn(publicKeyTo)}})

\* sharedKey(privateKeyFrom, publicKeyTo, prefix)
sharedKey(privateKeyFrom, publicKeyTo, prefix) ==
  The({IF IsErr(from) THEN from
       ELSE IF IsErr(to) THEN to
       ELSE The({IF IsErr(raw) THEN raw
                 ELSE IF \A i \in 1..Len(raw.val) : raw.val[i] = 0 THEN Err(ErrZeroPoint)
                 ELSE LET prefixHash == sha256(fromRawIn(prefix))
                      IN Ok(hmacSHA256(raw.val, prefixHash))
                 : raw \in {curveSharedKey(from.val, to.val)}})
       : from \in {fromIn(privateKeyFrom)}, to \in {fromIn(publicKeyTo)}})

(***************************************************************************)
(* Specification of merkleVerify: the initial state draws a root hash, a   *)
(* proof and a leaf; MerkleVerifyCall applies merkleVerify to them.        *)
(* A proof is the serialisation of a list of (side byte, hash) records,    *)
(* followed by a possibly empty tail of further bytes.                     *)
(***************************************************************************)
MaxProofRecords == 2

Leaves == {<<1, 2, 3>>, << >>}

ProofHashes == {blake2b(<<9>>), <<5>>}

SideBytes == {0, 1, 2}

ProofRecord == [side : SideBytes, hash : ProofHashes]

RecordLists == UNION {[1..n -> ProofRecord] : n \in 0..MaxProofRecords}

\* bytes after the last complete record: none, a side byte without a size
\* byte, a record of declared size zero, a record whose declared size runs
\* past the end of the buffer
ProofTails == {<< >>, <<0>>, <<1, 0>>, <<0, 5, 1, 2>>}

RootModes == {"match", "otherLeaf", "otherSide", "short", "long"}

RECURSIVE Serialize(_)
Serialize(recs) ==
  IF Len(recs) = 0 THEN << >>
  ELSE <<Head(recs).side, Len(Head(recs).hash)>> \o Head(recs).hash
         \o Serialize(Tail(recs))

\* The root of the tree the records describe, as section 4.6 of the
\* specification computes it (side byte 0 is a Left record).
RECURSIVE SpecRoot(_, _)
SpecRoot(acc, recs) ==
  IF Len(recs) = 0 THEN acc
  ELSE SpecRoot(IF Head(recs).side = 0
                  THEN blake2b(<<1>> \o acc \o Head(recs).hash)
                  ELSE blake2b(<<1>> \o Head(recs).hash \o acc),
                Tail(recs))

SpecLeafHash(leaf) == blake2b(<<0>> \o leaf)

FlipFirst(recs) ==
  IF Len(recs) = 0 THEN recs
  ELSE [recs EXCEPT ![1].side = IF recs[1].side = 0 THEN 1 ELSE 0]

RootFor(mode, leaf, recs) ==
  CASE mode = "match" -> SpecRoot(SpecLeafHash(leaf), recs)
    [] mode = "otherLeaf" -> SpecRoot(SpecLeafHash(leaf \o <<1>>), recs)
    [] mode = "otherSide" -> SpecRoot(SpecLeafHash(leaf), FlipFirst(recs))
    [] mode = "short" -> Slice(SpecRoot(SpecLeafHash(leaf), recs), 0, 16)
    [] mode = "long" -> SpecRoot(SpecLeafHash(leaf), recs) \o <<0>>

InitMerkle ==
  /\ pc = "start"
  /\ ret = NoRet
  /\ \E leaf \in Leaves, recs \in RecordLists, tail \in ProofTails, mode \in RootModes :
       args = [rootHash |-> RootFor(mode, leaf, recs),
               merkleProof |-> Serialize(recs) \o tail,
               leafData |-> leaf,
               records |-> recs,
               tail |-> tail]

MerkleVerifyCall ==
  /\ pc = "start"
  /\ pc' = "done"
  /\ ret' = merkleVerify(args.rootHash, args.merkleProof, args.leafData)
  /\ UNCHANGED args

NextMerkle == MerkleVerifyCall

SpecMerkle == InitMerkle /\ [][NextMerkle]_vars

(***************************************************************************)
(* Claims about merkleVerify                                               *)
(***************************************************************************)
\* A proof is malformed, in the words of section 4.6, when a record declares
\* size zero, or extends past the end of the buffer, or lacks its size byte.
RECURSIVE SpecMalformed(_)
SpecMalformed(proof) ==
  IF Len(proof) = 0 THEN FALSE
  ELSE IF Len(proof) < 2 THEN TRUE
  ELSE IF proof[2] = 0 THEN TRUE
  ELSE IF 2 + proof[2] > Len(proof) THEN TRUE
  ELSE SpecMalformed(SliceFrom(proof, 2 + proof[2]))

\* C7: for a 32-byte root and a well-formed proof, merkleVerify returns true
\* exactly when folding the records from blake2b(0x00 || leaf), hash first
\* for a Right record and accumulator first for a Left record, yields the
\* root; for the empty proof, exactly when the leaf hash is the root.
C7_FoldDecides ==
  (pc = "done" /\ Len(args.rootHash) = 32 /\ ~SpecMalformed(args.merkleProof))
    => ret = Ok(SpecRoot(SpecLeafHash(args.leafData), args.records) = args.rootHash)

C7_Witness ==
  /\ pc = "done"
  /\ Len(args.records) = 2
  /\ args.records[1].side = 0
  /\ args.records[2].side # 0
  /\ ~SpecMalformed(args.merkleProof)
  /\ ret = Ok(TRUE)

\* C8: merkleVerify fails with the malformed-proof error, and returns no
\* boolean, for every proof in which a record declares size zero, or a size
\* that extends past the end of the buffer, or has no size byte.
C8_MalformedProofThrows ==
  (pc = "done" /\ Len(args.rootHash) = 32 /\ SpecMalformed(args.merkleProof))
    => ret = Err(ErrWrongHashSize)

\* C9: a root hash whose length is not 32 fails with the root-hash-length
\* error, also when the proof is malformed.
C9_RootLengthFirst ==
  (pc = "done" /\ Len(args.rootHash) # 32) => ret = Err(ErrRootHashLength)

C9_Witness ==
  /\ pc = "done"
  /\ Len(args.rootHash) # 32
  /\ SpecMalformed(args.merkleProof)
  /\ ret = Err(ErrRootHashLength)

(***************************************************************************)
(* Specification of the address functions: the initial state draws a       *)
(* public key, the chain id the address is built for, the way the built    *)
(* address reaches verifyAddress and the options of verifyAddress.         *)
(* BuildAddressCall builds the address, VerifyAddressCall verifies it.     *)
(***************************************************************************)
PublicKeys == {sha256(<<1>>), sha256(<<2>>)}

ChainIds == {StrChain(<<76>>), StrChain(<<84>>), StrChain(<<332>>),
             NumChain(0), NumChain(76), NumChain(84), NumChain(255)}

\* how the bytes given to verifyAddress derive from the built address
AddrForms == {"asBuilt", "base58", "oneMore", "oneLess", "version",
              "hashByte", "checksum", "empty", "notBase58"}

AddrInput(form, a) ==
  CASE form = "asBuilt" -> BytesIn(a)
    [] form = "base58" -> Base58In(a)
    [] form = "oneMore" -> BytesIn(a \o <<0>>)
    [] form = "oneLess" -> BytesIn(Slice(a, 0, Len(a) - 1))
    [] form = "version" -> BytesIn([a EXCEPT ![1] = 2])
    [] form = "hashByte" -> BytesIn([a EXCEPT ![3] = (a[3] + 1) % 256])
    [] form = "checksum" -> BytesIn([a EXCEPT ![Len(a)] = (a[Len(a)] + 1) % 256])
    [] form = "empty" -> BytesIn(<< >>)
    [] form = "notBase58" -> NotBase58

PublicKeyOptions == {Undefined, NotBase58} \cup {BytesIn(k) : k \in PublicKeys}

InitAddr ==
  /\ pc = "start"
  /\ ret = NoRet
  /\ \E pk \in PublicKeys, c \in ChainIds, form \in AddrForms,
        optChain \in {Undefined} \cup ChainIds, optPk \in PublicKeyOptions :
       args = [publicKey |-> pk, chainId |-> c, form |-> form,
               optChainId |-> optChain, optPublicKey |-> optPk,
               addr |-> Undefined]

BuildAddressCall ==
  /\ pc = "start"
  /\ pc' = "built"
  /\ ret' = Ok(buildAddress(args.publicKey, args.chainId))
  /\ UNCHANGED args

VerifyAddressCall ==
  /\ pc = "built"
  /\ pc' = "done"
  /\ args' = [args EXCEPT !.addr = AddrInput(args.form, ret.val)]
  /\ ret' = verifyAddress(args'.addr, args.optChainId, args.optPublicKey)

NextAddr == BuildAddressCall \/ VerifyAddressCall

SpecAddr == InitAddr /\ [][NextAddr]_vars

(***************************************************************************)
(* Claims about buildAddress and verifyAddress                             *)
(***************************************************************************)
\* the numeric form of a chain id
NumericForm(c) == IF c.t = "string" THEN c.units[1] ELSE c.n

\* C2: an address built for chain id c verifies against the option
\* {chainId: c'} exactly when c and c' have the same numeric form.
C2_ChainIdDecides ==
  (/\ pc = "done"
   /\ args.form = "asBuilt"
   /\ args.optChainId # Undefined
   /\ args.optPublicKey = Undefined)
    => ret = Ok(NumericForm(args.optChainId) = NumericForm(args.chainId))

\* C10: verifyAddress returns a boolean and never throws, and returns false
\* on a parse error, on a decoded address that is not exactly 26 bytes, and
\* on a mismatch of the version byte, the chain id or the checksum.
C10_FailsClosed ==
  pc = "done" =>
    /\ ret \in {Ok(TRUE), Ok(FALSE)}
    /\ args.form \in {"oneMore", "oneLess", "empty", "notBase58",
                      "version", "checksum"} => ret = Ok(FALSE)
    /\ (/\ args.optChainId # Undefined
        /\ NumericForm(args.optChainId) # NumericForm(args.chainId))
         => ret = Ok(FALSE)

\* C11: with the publicKey option, and with no chainId option or the chain
\* id the address was built for, verifyAddress(buildAddress(pk, c), ...)
\* returns true when the option is pk, for every chain id c, and false when
\* the option is a key with another public key hash.
C11_PublicKeyOptionDecides ==
  (/\ pc = "done"
   /\ args.form = "asBuilt"
   /\ args.optPublicKey.t = "bytes"
   /\ \/ args.optChainId = Undefined
      \/ NumericForm(args.optChainId) = NumericForm(args.chainId))
    => ret = Ok(args.optPublicKey.b = args.publicKey)

\* C14: buildAddress returns exactly 26 bytes: 0x01, the byte of the chain
\* id's numeric form, the first 20 bytes of keccak(blake2b(publicKey)) and
\* the first 4 bytes of keccak(blake2b(bytes 0..21)); a one-character chain
\* id gives the address of its code point.
C14_AddressLayout ==
  pc = "built" =>
    /\ IsOk(ret)
    /\ Len(ret.val) = 26
    /\ ret.val[1] = 1
    /\ ret.val[2] = NumericForm(args.chainId) % 256
    /\ Slice(ret.val, 2, 22) = Slice(keccak(blake2b(args.publicKey)), 0, 20)
    /\ Slice(ret.val, 22, 26) = Slice(keccak(blake2b(Slice(ret.val, 0, 22))), 0, 4)
    /\ args.chainId.t = "string"
         => ret.val = buildAddress(args.publicKey, NumChain(args.chainId.units[1]))

C14_Witness ==
  /\ pc = "built"
  /\ args.chainId = StrChain(<<76>>)
  /\ Len(ret.val) = 26
  /\ ret.val[2] = MAIN_NET_CHAIN_ID
  /\ ret.val = buildAddress(args.publicKey, NumChain(76))

(***************************************************************************)
(* Specification of the message envelope: the initial state draws the      *)
(* shared key of the sender, the shared key of the receiver, the message   *)
(* and the CEK and IV the random generator returns.  MessageEncryptCall    *)
(* builds the envelope, MessageDecryptCall opens it.                       *)
(***************************************************************************)
MaxMsgLen == 2

\* 'A', e-acute (2 bytes), the euro sign (3 bytes), an emoji (4 bytes)
MsgChars == {65, 233, 8364, 128512}

Messages == UNION {[1..n -> MsgChars] : n \in 0..MaxMsgLen}

\* The wrapped CEK of the first key unpads under the third key and fails to
\* unpad under the second.
SharedKeys == {sha256(<<1>>), sha256(<<2>>), sha256(<<190>>)}

CEKs == {sha256(<<11>>), sha256(<<12>>)}

IVs == {Slice(sha256(<<21>>), 0, 16), Fill(16, 255)}

InitEnv ==
  /\ pc = "start"
  /\ ret = NoRet
  /\ \E sk \in SharedKeys, dk \in SharedKeys, m \in Messages,
        cek \in CEKs, iv \in IVs :
       args = [sharedKey |-> sk, decryptKey |-> dk, message |-> m,
               CEK |-> cek, IV |-> iv, envelope |-> << >>,
               altered |-> {}, first |-> NoRet]

MessageEncryptCall ==
  /\ pc = "start"
  /\ pc' = "encrypted"
  /\ ret' = messageEncrypt(args.sharedKey, args.message, args.CEK, args.IV)
  /\ UNCHANGED args

MessageDecryptCall ==
  /\ pc = "encrypted"
  /\ IsOk(ret)
  /\ pc' = "done"
  /\ args' = [args EXCEPT !.envelope = ret.val]
  /\ ret' = messageDecrypt(args.decryptKey, ret.val)

\* lengths too short for the fixed-size fields of an envelope
ShortLengths == {0, 1, 10, 48, 49, 81, 112}

\* messageDecrypt of the first bytes of the envelope, with the key it was
\* encrypted with
MessageDecryptShortCall ==
  /\ pc = "encrypted"
  /\ IsOk(ret)
  /\ args.decryptKey = args.sharedKey
  /\ \E n \in ShortLengths :
       /\ args' = [args EXCEPT !.envelope = Slice(ret.val, 0, n)]
       /\ ret' = messageDecrypt(args.decryptKey, Slice(ret.val, 0, n))
  /\ pc' = "short"

\* the fields of an envelope an attacker alters: at most one of the fields
\* the CEK tag covers (a byte of the first or of the last block of the
\* wrapped CEK, the stored CEK tag, the IV) and at most one of the
\* ciphertext and the stored content tag
KeyFields == {"wrappedFirst", "wrappedLast", "macCek", "iv"}

ContentFields == {"macContent", "ciphertext"}

Alterations ==
  {k \cup c : k \in {{}} \cup {{f} : f \in KeyFields},
              c \in {{}} \cup {{f} : f \in ContentFields}} \ {{}}

\* 0-based position of the byte altered in a field
FieldByte(f) ==
  CASE f = "wrappedFirst" -> 1
    [] f = "wrappedLast" -> 48
    [] f = "macCek" -> 49
    [] f = "macContent" -> 81
    [] f = "iv" -> 113
    [] f = "ciphertext" -> 129

\* the envelope with one byte of each field of the set changed; an empty
\* ciphertext is altered by one more byte
AlterEnvelope(envelope, fields) ==
  [i \in 1..Len(envelope) |->
     IF \E f \in fields : FieldByte(f) + 1 = i
     THEN (envelope[i] + 1) % 256 ELSE envelope[i]]
    \o (IF "ciphertext" \in fields /\ Len(envelope) = 129 THEN <<7>> ELSE << >>)

\* messageDecrypt of an altered envelope, with the key it was encrypted with
MessageDecryptAlteredCall ==
  /\ pc = "encrypted"
  /\ IsOk(ret)
  /\ args.decryptKey = args.sharedKey
  /\ \E fields \in Alterations :
       \E altered \in {AlterEnvelope(ret.val, fields)} :
         /\ args' = [args EXCEPT !.envelope = altered, !.altered = fields]
         /\ ret' = messageDecrypt(args.decryptKey, altered)
  /\ pc' = "altered"

\* values of the version byte other than the one messageEncrypt writes
OtherVersions == {0, 255}

\* messageDecrypt, with the same key, of the envelope just decrypted with
\* its version byte replaced
MessageDecryptVersionCall ==
  /\ pc = "done"
  /\ \E v \in OtherVersions :
       \E reversioned \in {[args.envelope EXCEPT ![1] = v]} :
         /\ args' = [args EXCEPT !.envelope = reversioned, !.first = ret]
         /\ ret' = messageDecrypt(args.decryptKey, reversioned)
  /\ pc' = "reversioned"

NextEnv ==
  \/ MessageEncryptCall
  \/ MessageDecryptCall
  \/ MessageDecryptShortCall
  \/ MessageDecryptAlteredCall
  \/ MessageDecryptVersionCall

SpecEnv == InitEnv /\ [][NextEnv]_vars

(***************************************************************************)
(* Claims about messageEncrypt and messageDecrypt                          *)
(***************************************************************************)
\* C3: decrypting an envelope with the shared key it was encrypted with
\* returns exactly the message, whatever the CEK and the IV were.
C3_DecryptInvertsEncrypt ==
  (pc = "done" /\ args.decryptKey = args.sharedKey) => ret = Ok(args.message)

C3_Witness ==
  /\ pc = "done"
  /\ args.decryptKey = args.sharedKey
  /\ Len(stringToBytes(args.message)) > Len(args.message)
  /\ ret = Ok(args.message)

\* C4 as stated: decrypting with any other shared key fails with the
\* 'Invalid key' error and with no other error.
C4_WrongKeyIsInvalidKey ==
  (pc = "done" /\ args.decryptKey # args.sharedKey) => ret = Err(ErrInvalidKey)

\* What the code guarantees under a wrong shared key: no string is returned;
\* the call fails with the 'Invalid key' error or, when the wrapped CEK does
\* not unpad under the wrong key, with the padding error of the AES-ECB
\* decryption, which is thrown before the CEK tag is compared.
C4_WrongKeyFails ==
  (pc = "done" /\ args.decryptKey # args.sharedKey)
    => ret \in {Err(ErrInvalidKey), Err(ErrAesPadding)}

C4_Witness ==
  /\ pc = "done"
  /\ args.decryptKey # args.sharedKey
  /\ ret = Err(ErrInvalidKey)

C19_ShortIsMalformed ==
  pc = "short" => ret = Err(ErrMalformedMessage)

\* C22: messageDecrypt checks the CEK tag before it decrypts the content:
\* an envelope whose stored CEK tag, IV or wrapped CEK was altered fails
\* with 'Invalid key', also when the ciphertext or the content tag was
\* altered too; one in which only the ciphertext or the content tag was
\* altered fails with 'Invalid message'; no plaintext is returned.
C22_KeyTagFirst ==
  pc = "altered" =>
    IF args.altered \cap KeyFields # {} THEN ret = Err(ErrInvalidKey)
    ELSE ret = Err(ErrInvalidMessage)

\* What the code guarantees for an altered envelope: no plaintext; 'Invalid
\* key' when the CEK tag, the IV or the CEK blocks of the wrapped CEK were
\* altered, the padding error of the AES-ECB decryption when its padding
\* block was, and 'Invalid message' when only the content was.
C22_AlteredFails ==
  pc = "altered" =>
    IF "wrappedLast" \in args.altered THEN ret = Err(ErrAesPadding)
    ELSE IF args.altered \cap KeyFields # {} THEN ret = Err(ErrInvalidKey)
    ELSE ret = Err(ErrInvalidMessage)

\* C28: messageDecrypt does not depend on the version byte of the envelope:
\* with byte 0 of an envelope of messageEncrypt replaced by another value,
\* messageDecrypt returns the same string, or fails with the same error, as
\* for the envelope itself.
C28_VersionIgnored ==
  pc = "reversioned" =>
    /\ args.envelope[1] # ENVELOPE_VERSION
    /\ ret = args.first

C28_Witness ==
  /\ pc = "reversioned"
  /\ args.envelope[1] = 255
  /\ args.decryptKey = args.sharedKey
  /\ Len(args.message) > 0
  /\ ret = Ok(args.message)

(***************************************************************************)
(* Specification of sharedKey: two key pairs are derived from seeds, the   *)
(* first side computes the shared key with the public key it was given     *)
(* (the honest public key of the second side, or one crafted by an         *)
(* attacker), and the second side computes it with the first side's public *)
(* key.                                                                    *)
(***************************************************************************)
MaxPrefixLen == 1

DHSeeds == {BytesIn(<<1>>), BytesIn(<<2>>), NonceSeed(BytesIn(<<1>>), NumberIn(7))}

RECURSIVE PrefixesUpTo(_)
PrefixesUpTo(n) ==
  IF n = 0 THEN {<< >>}
  ELSE PrefixesUpTo(n - 1) \cup {Fill(n, 100)}

Prefixes == {BytesIn(b) : b \in PrefixesUpTo(MaxPrefixLen)}

\* u-coordinates an attacker can send: the points of order 1, 2, 4 and 8,
\* encodings of them that are not reduced or have the top bit set, a point
\* of the twist, and a key one byte short
LowOrderU == {0, 1, 28408, 32236, 32748}

CraftedKeys ==
  {numberToBytesLE(u, KEY_LEN) : u \in LowOrderU \cup {FieldP, FieldP + 1, 2}}
    \cup {[numberToBytesLE(1, KEY_LEN) EXCEPT ![KEY_LEN] = 128]}
    \cup {Fill(KEY_LEN - 1, 9)}

Peers == {[kind |-> "honest"]} \cup {[kind |-> "crafted", key |-> k] : k \in CraftedKeys}

InitDH ==
  /\ pc = "start"
  /\ ret = NoRet
  /\ \E sa \in DHSeeds, sb \in DHSeeds, pre \in Prefixes, peer \in Peers :
       args = [seedA |-> sa, seedB |-> sb, prefix |-> pre, peer |-> peer,
               A |-> NoRet, B |-> NoRet, publicKeyTo |-> << >>, first |-> NoRet]

KeyPairCall ==
  /\ pc = "start"
  /\ \E A \in {keyPair(args.seedA)}, B \in {keyPair(args.seedB)} :
       /\ IsOk(A)
       /\ IsOk(B)
       /\ args' = [args EXCEPT !.A = A.val, !.B = B.val,
                               !.publicKeyTo = IF args.peer.kind = "honest"
                                               THEN B.val.publicKey
                                               ELSE args.peer.key]
  /\ pc' = "keys"
  /\ UNCHANGED ret

SharedKeyFromCall ==
  /\ pc = "keys"
  /\ pc' = "from"
  /\ ret' = sharedKey(BytesIn(args.A.privateKey), BytesIn(args.publicKeyTo), args.prefix)
  /\ UNCHANGED args

SharedKeyBackCall ==
  /\ pc = "from"
  /\ args.peer.kind = "honest"
  /\ pc' = "done"
  /\ args' = [args EXCEPT !.first = ret]
  /\ ret' = sharedKey(BytesIn(args.B.privateKey), BytesIn(args.A.publicKey), args.prefix)

NextDH == KeyPairCall \/ SharedKeyFromCall \/ SharedKeyBackCall

SpecDH == InitDH /\ [][NextDH]_vars

(***************************************************************************)
(* Claims about sharedKey                                                  *)
(***************************************************************************)
\* C5: for two key pairs derived by keyPair and any prefix, the shared key
\* computed from A's private key and B's public key equals the one computed
\* from B's private key and A's public key.
C5_SharedKeySymmetric ==
  pc = "done" => (IsOk(args.first) /\ IsOk(ret) /\ ret.val = args.first.val)

C5_Witness ==
  /\ pc = "done"
  /\ args.A.publicKey # args.B.publicKey
  /\ IsOk(ret)
  /\ Len(ret.val) = HashLen
  /\ ret = args.first

\* the raw X25519 output for (privateKeyFrom, publicKeyTo) is 32 zero bytes
RawIsZero ==
  LET raw == curveSharedKey(args.A.privateKey, args.publicKeyTo)
  IN IsOk(raw) /\ raw.val = Fill(KEY_LEN, 0)

\* C6: whenever the raw X25519 output is the all-zero array, sharedKey fails
\* with an error and returns no key.
C6_ZeroSecretRejected ==
  (pc = "from" /\ RawIsZero) => IsErr(ret)

C6_Witness ==
  /\ pc = "from"
  /\ RawIsZero
  /\ args.publicKeyTo = numberToBytesLE(1, KEY_LEN)
  /\ ret = Err(ErrZeroPoint)

(***************************************************************************)
(* Specification of signing: a message is signed with a seed, or with the  *)
(* private key object of the seed, and 64 random bytes; the signature is   *)
(* verified against the public key of the seed.                            *)
(***************************************************************************)
MaxSignMsgLen == 2

SignSeeds ==
  {BytesIn(<< >>), BytesIn(<<1>>), BytesIn(<<4>>),
   NonceSeed(BytesIn(<<1>>), NumberIn(1)),
   NonceSeed(NonceSeed(BytesIn(<<4>>), NumberIn(9)), NumberIn(65536))}

SignMsgBytes == {0, 255}

SignMessages == UNION {[1..n -> SignMsgBytes] : n \in 0..MaxSignMsgLen}

Randoms == {Fill(RANDOM_LEN, 0), sha512(<<3>>)}

InitSign ==
  /\ pc = "start"
  /\ ret = NoRet
  /\ \E seed \in SignSeeds, m \in SignMessages, rnd \in Randoms,
        mode \in {"seed", "privateKey"} :
       args = [seed |-> seed, mode |-> mode, message |-> m, random |-> rnd,
               signer |-> seed, signature |-> << >>]

PrivateKeyCall ==
  /\ pc = "start"
  /\ args.mode = "privateKey"
  /\ \E key \in {privateKey(args.seed)} :
       /\ IsOk(key)
       /\ args' = [args EXCEPT !.signer = PrivateKeyObject(BytesIn(key.val))]
  /\ pc' = "key"
  /\ UNCHANGED ret

SignBytesCall ==
  /\ \/ pc = "start" /\ args.mode = "seed"
     \/ pc = "key"
  /\ pc' = "signed"
  /\ ret' = signBytes(args.signer, BytesIn(args.message), BytesIn(args.random), << >>)
  /\ UNCHANGED args

VerifySignatureCall ==
  /\ pc = "signed"
  /\ IsOk(ret)
  /\ pc' = "done"
  /\ args' = [args EXCEPT !.signature = ret.val]
  /\ \E pk \in {publicKey(args.seed)} :
       ret' = IF IsErr(pk) THEN pk
              ELSE verifySignature(BytesIn(pk.val), BytesIn(args.message),
                                   BytesIn(ret.val))

NextSign == PrivateKeyCall \/ SignBytesCall \/ VerifySignatureCall

SpecSign == InitSign /\ [][NextSign]_vars

(***************************************************************************)
(* Claims about signBytes and verifySignature                              *)
(***************************************************************************)
\* C1: for every seed, message (the empty one included) and 64 random
\* bytes, signBytes returns a signature and verifySignature accepts it
\* under publicKey(seed), whether the seed or the private key object of the
\* seed signed.
C1_SignatureVerifies ==
  /\ pc = "signed" => (IsOk(ret) /\ Len(ret.val) = SIGNATURE_LEN)
  /\ pc = "done" => ret = Ok(TRUE)

C1_Witness ==
  /\ pc = "done"
  /\ args.mode = "privateKey"
  /\ args.message = << >>
  /\ BitAnd(args.signature[SIGNATURE_LEN], 128) = 128
  /\ ret = Ok(TRUE)

\* what verify works on: the signature with bit 7 of byte 63 cleared, and
\* that bit
StripSignBit(signature) ==
  [sig |-> [signature EXCEPT ![SIGNATURE_LEN] = BitAnd(signature[SIGNATURE_LEN], 127)],
   sBit |-> BitAnd(signature[SIGNATURE_LEN], 128)]

SignerKey == privateKey(args.seed).val

VerifySeeds == {BytesIn(<<1>>), NonceSeed(BytesIn(<<4>>), NumberIn(9))}

PublicKeyForms == {"base58", "array", "notBase58", "short", "long", "empty",
                   "zero", "twist"}

SignatureForms == {"base58", "array", "notBase58", "short", "long", "empty",
                   "zero", "badR", "bigS", "otherS"}

MessageForms == {"base58", "array", "notBase58"}

\* the ways to alter the inputs of a verification of message m
Tampers(m) ==
  {[what |-> "none"]}
    \cup {[what |-> "publicKey", form |-> f] : f \in PublicKeyForms}
    \cup {[what |-> "signature", form |-> f] : f \in SignatureForms}
    \cup {[what |-> "message", form |-> f] : f \in MessageForms}
    \cup {[what |-> "messageBit", bit |-> k] : k \in 0..(8 * Len(m) - 1)}

\* an array of numbers that Uint8Array.from maps to the bytes
NumbersFor(bytes) == [i \in 1..Len(bytes) |-> bytes[i] + 256 * (i % 2)] \o << >>

\* the u-coordinate 2 is on the twist: no Edwards point belongs to it
TwistKey == numberToBytesLE(2, KEY_LEN)

PublicKeyInput(t, pk) ==
  IF t.what # "publicKey" THEN BytesIn(pk)
  ELSE CASE t.form = "base58" -> Base58In(pk)
         [] t.form = "array" -> ArrayIn(NumbersFor(pk))
         [] t.form = "notBase58" -> NotBase58
         [] t.form = "short" -> BytesIn(Slice(pk, 0, KEY_LEN - 1))
         [] t.form = "long" -> BytesIn(pk \o <<0>>)
         [] t.form = "empty" -> BytesIn(<< >>)
         [] t.form = "zero" -> BytesIn(Fill(KEY_LEN, 0))
         [] t.form = "twist" -> BytesIn(TwistKey)

\* the signature with the number n added to its scalar S (bytes 32 and 33)
AddToS(sig, n) ==
  The({[sig EXCEPT ![KEY_LEN + 1] = S % 256, ![KEY_LEN + 2] = S \div 256]
       : S \in {sig[KEY_LEN + 1] + 256 * sig[KEY_LEN + 2] + n}})

SignatureInput(t, sig) ==
  IF t.what # "signature" THEN BytesIn(sig)
  ELSE CASE t.form = "base58" -> Base58In(sig)
         [] t.form = "array" -> ArrayIn(NumbersFor(sig))
         [] t.form = "notBase58" -> NotBase58
         [] t.form = "short" -> BytesIn(Slice(sig, 0, SIGNATURE_LEN - 1))
         [] t.form = "long" -> BytesIn(sig \o <<0>>)
         [] t.form = "empty" -> BytesIn(<< >>)
         [] t.form = "zero" -> BytesIn(Fill(SIGNATURE_LEN, 0))
         [] t.form = "badR" ->
              BytesIn(montgomeryToEdwards(TwistKey, 0) \o SliceFrom(sig, KEY_LEN))
         [] t.form = "bigS" -> BytesIn(AddToS(sig, L))
         [] t.form = "otherS" -> BytesIn(AddToS(sig, 1))

\* the message with bit k flipped (bit k % 8 of byte k \div 8)
FlipBit(m, k) ==
  [m EXCEPT ![k \div 8 + 1] = BitXor(m[k \div 8 + 1], 2 ^ (k % 8))]

MessageInput(t, m) ==
  IF t.what = "messageBit" THEN BytesIn(FlipBit(m, t.bit))
  ELSE IF t.what # "message" THEN BytesIn(m)
  ELSE CASE t.form = "base58" -> Base58In(m)
         [] t.form = "array" -> ArrayIn(NumbersFor(m))
         [] t.form = "notBase58" -> NotBase58

InitVerify ==
  /\ pc = "start"
  /\ ret = NoRet
  /\ \E seed \in VerifySeeds, m \in SignMessages, rnd \in Randoms :
       \E t \in Tampers(m) :
         args = [seed |-> seed, message |-> m, random |-> rnd, tamper |-> t,
                 publicKey |-> << >>, signature |-> << >>,
                 publicKeyIn |-> Undefined, messageIn |-> Undefined,
                 signatureIn |-> Undefined]

\* publicKey(seed) and signBytes(seed, message, random), then the inputs of
\* the verification are put in their form
SignerCall ==
  /\ pc = "start"
  /\ \E pk \in {publicKey(args.seed)},
        sig \in {signBytes(args.seed, BytesIn(args.message), BytesIn(args.random), << >>)} :
       /\ IsOk(pk)
       /\ IsOk(sig)
       /\ args' = [args EXCEPT !.publicKey = pk.val, !.signature = sig.val,
                     !.publicKeyIn = PublicKeyInput(args.tamper, pk.val),
                     !.messageIn = MessageInput(args.tamper, args.message),
                     !.signatureIn = SignatureInput(args.tamper, sig.val)]
  /\ pc' = "signed"
  /\ UNCHANGED ret

VerifyAlteredCall ==
  /\ pc = "signed"
  /\ pc' = "done"
  /\ ret' = verifySignature(args.publicKeyIn, args.messageIn, args.signatureIn)
  /\ UNCHANGED args

VerifyPublicKeyCall ==
  /\ pc = "signed"
  /\ args.tamper.what \in {"none", "publicKey"}
  /\ pc' = "keyChecked"
  /\ ret' = verifyPublicKey(args.publicKeyIn)
  /\ UNCHANGED args

NextVerify == SignerCall \/ VerifyAlteredCall \/ VerifyPublicKeyCall

SpecVerify == InitVerify /\ [][NextVerify]_vars

(***************************************************************************)
(* Claims about verifySignature and verifyPublicKey                        *)
(***************************************************************************)
\* the input decodes to bytes of another length than n, or to no bytes
NotOfLength(inValue, n) ==
  The({IsErr(d) \/ Len(d.val) # n : d \in {fromIn(inValue)}})

\* some input of the verification is a string that is not Base58
SomeNotBase58 ==
  NotBase58 \in {args.publicKeyIn, args.messageIn, args.signatureIn}

\* the public key or the R of the signature decodes to no Edwards point
PointDecodingFails ==
  The({\/ IsErr(EdFromBytes(montgomeryToEdwards(pk.val,
                              BitAnd(sig.val[SIGNATURE_LEN], 128))))
       \/ IsErr(EdFromBytes(Slice(sig.val, 0, KEY_LEN)))
       : pk \in {fromIn(args.publicKeyIn)}, sig \in {fromIn(args.signatureIn)}})

\* C12: verifySignature never throws: it returns a boolean for every public
\* key, message and signature input, and the boolean is false when the
\* signature is not 64 bytes, the public key is not 32 bytes, an input
\* string is not Base58, or point decoding fails.
C12_VerifySignatureTotal ==
  pc = "done" =>
    /\ ret \in {Ok(TRUE), Ok(FALSE)}
    /\ (\/ SomeNotBase58
        \/ NotOfLength(args.signatureIn, SIGNATURE_LEN)
        \/ NotOfLength(args.publicKeyIn, KEY_LEN)
        \/ PointDecodingFails) => ret = Ok(FALSE)

C12_Witness ==
  /\ pc = "done"
  /\ args.publicKeyIn = NotBase58
  /\ ~NotOfLength(args.signatureIn, SIGNATURE_LEN)
  /\ ret = Ok(FALSE)

\* C13: verifyPublicKey never propagates an exception: for bytes, an array
\* of numbers and a string, a string that is not Base58 included, it
\* returns true exactly when the input decodes to 32 bytes, false otherwise.
C13_VerifyPublicKeyTotal ==
  pc = "keyChecked" =>
    ret = Ok(~NotOfLength(args.publicKeyIn, PUBLIC_KEY_LENGTH))

\* What verifyPublicKey guarantees: the length test for every input that
\* decodes, and the decoder's exception for a string that is not Base58.
C13_DecodedLengthDecides ==
  pc = "keyChecked" =>
    IF args.publicKeyIn = NotBase58 THEN ret = Err(ErrBase58)
    ELSE ret = Ok(~NotOfLength(args.publicKeyIn, PUBLIC_KEY_LENGTH))

\* the Ed25519 challenges of the signed message and of the message handed to
\* the verification are the same number modulo the group order
ChallengeCollides ==
  The({bytesToNumberLEMod(sha512(prefix \o args.message), L)
         = bytesToNumberLEMod(sha512(prefix \o args.messageIn.b), L)
       : prefix \in {Slice(args.signature, 0, KEY_LEN)
                       \o montgomeryToEdwards(args.publicKey,
                            BitAnd(args.signature[SIGNATURE_LEN], 128))}})

RawSeeds == {BytesIn(<< >>), BytesIn(<<1>>), BytesIn(<<65>>), StringIn(<<65>>)}

Nonces ==
  {Undefined, NumberIn(0), NumberIn(1), NumberIn(256), NumberIn(65536),
   WideNumberIn(65535, 65535), WideNumberIn(65536, 0), WideNumberIn(65536, 1),
   NumberIn(-1), HalfAbove(0), HalfAbove(1), HalfAbove(-1)}

SeedWraps == {"object", "seedWithNonce", "nested"}

KeyOps == {"keyPair", "publicKey", "privateKey", "address"}

\* the seed handed to the operation
SeedFor(raw, nonce, wrap) ==
  IF nonce = Undefined THEN raw
  ELSE CASE wrap = "object" -> NonceSeed(raw, nonce)
         [] wrap = "seedWithNonce" -> seedWithNonce(raw, nonce)
         [] wrap = "nested" -> seedWithNonce(NonceSeed(raw, NumberIn(5)), nonce)

\* another seed with the same bytes and nonce: with nonce 0 for no nonce,
\* with no nonce for nonce 0, and the bytes in place of the string otherwise
TwinSeed(raw, nonce) ==
  IF nonce = Undefined THEN seedWithNonce(raw, NumberIn(0))
  ELSE IF nonce = NumberIn(0) THEN raw
  ELSE NonceSeed(BytesIn(fromRawIn(raw)), nonce)

InitKeys ==
  /\ pc = "start"
  /\ ret = NoRet
  /\ \E raw \in RawSeeds, nonce \in Nonces, wrap \in SeedWraps, op \in KeyOps :
       args = [raw |-> raw, nonce |-> nonce, wrap |-> wrap, op |-> op,
               seed |-> SeedFor(raw, nonce, wrap), first |-> NoRet]

KeyPairOfSeedCall ==
  /\ pc = "start"
  /\ args.op = "keyPair"
  /\ pc' = "done"
  /\ ret' = keyPair(args.seed)
  /\ UNCHANGED args

PublicKeyOfSeedCall ==
  /\ pc = "start"
  /\ args.op = "publicKey"
  /\ pc' = "done"
  /\ ret' = publicKey(args.seed)
  /\ UNCHANGED args

PrivateKeyOfSeedCall ==
  /\ pc = "start"
  /\ args.op = "privateKey"
  /\ pc' = "done"
  /\ ret' = privateKey(args.seed)
  /\ UNCHANGED args

AddressOfSeedCall ==
  /\ pc = "start"
  /\ args.op = "address"
  /\ pc' = "done"
  /\ ret' = address(args.seed, Undefined)
  /\ UNCHANGED args

KeyPairOfTwinCall ==
  /\ pc = "done"
  /\ args.op = "keyPair"
  /\ pc' = "again"
  /\ args' = [args EXCEPT !.first = ret]
  /\ ret' = keyPair(TwinSeed(args.raw, args.nonce))

\* publicKey({privateKey: privateKey(seed)}): the private key of the first
\* call is handed back as a private key object; an exception thrown by
\* privateKey(seed) is the outcome of the whole expression
PublicKeyOfPrivateKeyCall ==
  /\ pc = "done"
  /\ args.op = "privateKey"
  /\ pc' = "fromPrivate"
  /\ args' = [args EXCEPT !.first = ret]
  /\ ret' = IF IsErr(ret) THEN ret
            ELSE publicKey(PrivateKeyObject(BytesIn(ret.val)))

NextKeys ==
  \/ KeyPairOfSeedCall
  \/ PublicKeyOfSeedCall
  \/ PrivateKeyOfSeedCall
  \/ AddressOfSeedCall
  \/ KeyPairOfTwinCall
  \/ PublicKeyOfPrivateKeyCall

SpecKeys == InitKeys /\ [][NextKeys]_vars

(***************************************************************************)
(* Claims about keyPair, publicKey, privateKey and address                 *)
(***************************************************************************)
\* C15: keyPair depends on the seed bytes and the nonce alone, an absent
\* nonce counting as 0: two seeds with the same bytes and nonce give the
\* same key pair, and keyPair(seedWithNonce(S, 0)) = keyPair(S).
C15_SameBytesSameKeys ==
  pc = "again" =>
    /\ ret = args.first
    /\ args.nonce \in {Undefined, NumberIn(0)} => IsOk(ret)

C15_Witness ==
  /\ pc = "again"
  /\ args.nonce = Undefined
  /\ args.raw = StringIn(<<65>>)
  /\ IsOk(ret)
  /\ ret = args.first
  /\ ret = keyPair(seedWithNonce(args.raw, NumberIn(0)))

\* the nonce is an integer in [0, 2^32 - 1]
NonceInRange(nonce) == ~nonce.frac /\ nonce.hi >= 0 /\ nonce.hi <= 65535

\* C16: keyPair, publicKey, privateKey and address fail with the nonce range
\* error for every seed whose nonce is not an integer or is outside
\* [0, 2^32 - 1], and succeed for every integer nonce inside.
C16_NonceRange ==
  (pc = "done" /\ args.nonce # Undefined) =>
    IF NonceInRange(args.nonce) THEN IsOk(ret) ELSE ret = Err(ErrNonceRange)

C16_Witness ==
  /\ pc = "done"
  /\ args.op = "address"
  /\ args.nonce = WideNumberIn(65536, 0)
  /\ ret = Err(ErrNonceRange)

\* C17: in every key pair of keyPair both keys are 32 bytes, the private key
\* is clamped (bits 0..2 of byte 0 and bit 7 of byte 31 clear, bit 6 of
\* byte 31 set) and the public key is the X25519 multiple of the base point
\* by the private key, with bit 7 of byte 31 cleared.
C17_KeyPairInvariant ==
  (pc = "done" /\ args.op = "keyPair" /\ IsOk(ret)) =>
    /\ Len(ret.val.privateKey) = 32
    /\ Len(ret.val.publicKey) = 32
    /\ ret.val.privateKey[1] % 8 = 0
    /\ ret.val.privateKey[32] \div 64 = 1
    /\ \E pk \in {x25519ScalarMultBase(ret.val.privateKey)} :
         ret.val.publicKey = [pk EXCEPT ![32] = pk[32] % 128]

C17_Witness ==
  /\ pc = "done"
  /\ args.op = "keyPair"
  /\ args.nonce = WideNumberIn(65535, 65535)
  /\ IsOk(ret)
  /\ ret.val.privateKey[32] \div 64 = 1
  /\ ret.val.publicKey = x25519ScalarMultBase(ret.val.privateKey)

\* nonces of the seed that is wrapped, valid and not
InnerNonces == {NumberIn(0), NumberIn(7), NumberIn(-1), WideNumberIn(65536, 0)}

\* C30: wrapping a seed that already carries a nonce keeps only the outer
\* nonce: seedWithNonce(seedWithNonce(S, n1), n2) has the seed bytes of S and
\* the nonce n2, and keyPair of it is keyPair(seedWithNonce(S, n2)) whatever
\* n1 is.
C30_OuterNonceOnly ==
  (pc = "done" /\ args.op = "keyPair" /\ args.wrap = "nested"
     /\ args.nonce # Undefined) =>
    /\ args.seed = NonceSeed(BytesIn(fromRawIn(args.raw)), args.nonce)
    /\ ret = keyPair(seedWithNonce(args.raw, args.nonce))
    /\ \A n1 \in InnerNonces :
         /\ seedWithNonce(seedWithNonce(args.raw, n1), args.nonce) = args.seed
         /\ keyPair(seedWithNonce(seedWithNonce(args.raw, n1), args.nonce)) = ret

C30_Witness ==
  /\ pc = "done"
  /\ args.op = "keyPair"
  /\ args.wrap = "nested"
  /\ args.nonce = NumberIn(1)
  /\ IsOk(ret)
  /\ ret # keyPair(NonceSeed(args.raw, NumberIn(5)))

\* C24: for every seed, publicKey({privateKey: privateKey(seed)}) equals
\* publicKey(seed): clamping is idempotent, and generateKeyPair applied to
\* the already clamped private key returns that key as the private key.
C24_PublicKeyFromPrivate ==
  pc = "fromPrivate" =>
    /\ ret = publicKey(args.seed)
    /\ IsOk(args.first) =>
         /\ clamp(args.first.val) = args.first.val
         /\ generateKeyPair(args.first.val)
              = Ok([public |-> ret.val, private |-> args.first.val])

C24_Witness ==
  /\ pc = "fromPrivate"
  /\ IsOk(ret)
  /\ args.wrap = "seedWithNonce"
  /\ args.nonce = NumberIn(256)
  /\ \E seedHash \in {buildSeedHash(SeedToBinary(args.seed).seed,
                                     SeedToBinary(args.seed).nonce)} :
       /\ IsOk(seedHash)
       /\ clamp(seedHash.val) # seedHash.val

(***************************************************************************)
(* Specification of the signing nonce: the same message is signed twice    *)
(* with the same seed, either with the same 64 random bytes given to both  *)
(* calls or with no random argument, in which case each call draws its own *)
(* 64 bytes from randomBytes.                                              *)
(***************************************************************************)
NonceSeeds == {BytesIn(<<1>>), BytesIn(<<4>>), NonceSeed(BytesIn(<<1>>), NumberIn(1))}

FreshRandoms == {Fill(RANDOM_LEN, 0), sha512(<<3>>), sha512(<<5>>)}

InitNonce ==
  /\ pc = "start"
  /\ ret = NoRet
  /\ \E seed \in NonceSeeds, m \in SignMessages,
        rnd \in {Undefined} \cup {BytesIn(b) : b \in Randoms},
        f1 \in FreshRandoms, f2 \in FreshRandoms :
       args = [seed |-> seed, message |-> m, random |-> rnd,
               fresh1 |-> f1, fresh2 |-> f2, first |-> NoRet]

SignBytesFirstCall ==
  /\ pc = "start"
  /\ pc' = "first"
  /\ ret' = signBytes(args.seed, BytesIn(args.message), args.random, args.fresh1)
  /\ UNCHANGED args

SignBytesAgainCall ==
  /\ pc = "first"
  /\ pc' = "second"
  /\ args' = [args EXCEPT !.first = ret]
  /\ ret' = signBytes(args.seed, BytesIn(args.message), args.random, args.fresh2)

NextNonce == SignBytesFirstCall \/ SignBytesAgainCall

SpecNonce == InitNonce /\ [][NextNonce]_vars

(***************************************************************************)
(* Claims about the signing nonce                                          *)
(***************************************************************************)
\* the R of a signature made with the nonce of the given hash input
NonceR(hashInput) ==
  EdToBytes(EdMul(bytesToNumberLEMod(sha512(hashInput), L), EdBase))

\* the clamped private key the calls sign with
ClampedSigner == clamp(privateKey(args.seed).val)

\* C21: signBytes without a random argument signs with the nonce
\* SHA512(clamped || message) mod L, so two such calls with the same key and
\* message return the same signature; with a random argument the nonce is
\* SHA512(0xFE || 0xFF x 31 || clamped || message || random) mod L.
C21_NonceBranch ==
  pc = "second" =>
    /\ IsOk(ret)
    /\ IF args.random = Undefined
       THEN /\ ret = args.first
            /\ Slice(ret.val, 0, KEY_LEN) = NonceR(ClampedSigner \o args.message)
       ELSE Slice(ret.val, 0, KEY_LEN)
              = NonceR(<<254>> \o Fill(31, 255) \o ClampedSigner
                         \o args.message \o args.random.b)

\* What signBytes does: it always signs with the randomized nonce, over the
\* random argument or, without one, over the 64 bytes it drew itself.
C21_AlwaysRandomized ==
  pc = "second" =>
    /\ IsOk(ret)
    /\ Slice(ret.val, 0, KEY_LEN)
         = NonceR(<<254>> \o Fill(31, 255) \o ClampedSigner \o args.message
                    \o (IF args.random = Undefined THEN args.fresh2 ELSE args.random.b))


(***************************************************************************)
(* Specification of the effect of the core operations on their arguments.  *)
(* The byte arrays are objects of a heap: a function from the names of the *)
(* arrays to their bytes.  The caller owns the arrays key, publicKey,      *)
(* message, signature, random, proof and root; _fromIn hands a Uint8Array  *)
(* on as it is, so the operations of libs/curve25519 and merkleVerify      *)
(* receive the caller's arrays themselves.  clamp and the stripping of the *)
(* sign bit write into the array they are given.                           *)
(***************************************************************************)
\* a copy constructor that hands back the array it was given
NewUint8ArrayAliased(heap, src, name) == [heap |-> heap, ref |-> src]

\* new Uint8Array(src): a new array, named name, with the bytes of src
NewUint8Array(heap, src, name) == [heap |-> (name :> heap[src]) @@ heap, ref |-> name]

\* clamp(k), which writes into the array k
clampAt(heap, k) == [heap EXCEPT ![k] = clamp(heap[k])]

\* generateKeyPair(seed) on the heap: the heap it leaves and what it returns
generateKeyPairAt(heap, seed) ==
  IF Len(heap[seed]) # KEY_LEN THEN [heap |-> heap, ret |-> Err(ErrSeedLength)]
  ELSE The({The({[heap |-> ("pk" :> [pk EXCEPT ![KEY_LEN] = BitAnd(pk[KEY_LEN], 127)]) @@ h,
                  ret |-> Ok([public |-> [pk EXCEPT ![KEY_LEN] = BitAnd(pk[KEY_LEN], 127)],
                              private |-> h[c.ref]])]
                 : pk \in {x25519ScalarMultBase(h[seed])}})
            : h \in {clampAt(NewUint8Array(heap, seed, "sk").heap,
                             NewUint8Array(heap, seed, "sk").ref)},
              c \in {NewUint8Array(heap, seed, "sk")}})

\* the name that stands for an argument left out
NoArray == "undefined"

\* sign(secretKey, msg, optRandom) on the heap
signAt(heap, secretKey, msg, optRandom) ==
  IF Len(heap[secretKey]) # KEY_LEN THEN [heap |-> heap, ret |-> Err(ErrSecretKeyLength)]
  ELSE IF optRandom # NoArray /\ Len(heap[optRandom]) # RANDOM_LEN
  THEN [heap |-> heap, ret |-> Err(ErrRandomLength)]
  ELSE The({The({[heap |-> IF IsOk(sig) THEN ("sig" :> sig.val) @@ h ELSE h,
                  ret |-> sig]
                 : sig \in {sign(h[c.ref], h[msg],
                                 IF optRandom = NoArray THEN Undefined
                                 ELSE BytesIn(h[optRandom]))}})
            : h \in {clampAt(NewUint8Array(heap, secretKey, "sk").heap,
                             NewUint8Array(heap, secretKey, "sk").ref)},
              c \in {NewUint8Array(heap, secretKey, "sk")}})

\* verify(publicKey, msg, signature) on the heap
verifyAt(heap, pubKey, msg, signature) ==
  IF Len(heap[signature]) # SIGNATURE_LEN
  THEN [heap |-> heap, ret |-> Err(ErrSignatureLength)]
  ELSE IF Len(heap[pubKey]) # KEY_LEN
  THEN [heap |-> heap, ret |-> Err(ErrPublicKeyLength)]
  ELSE The({The({[heap |-> h,
                  ret |-> Ok(ed25519Verify(
                               h[c.ref], h[msg],
                               montgomeryToEdwards(h[pubKey],
                                                   BitAnd(c.heap[c.ref][SIGNATURE_LEN], 128))))]
                 : h \in {[c.heap EXCEPT ![c.ref][SIGNATURE_LEN] = BitAnd(@, 127)]}})
            : c \in {NewUint8Array(heap, signature, "sigCopy")}})

\* merkleVerify(rootHash, merkleProof, leafData) on the heap: the proof is
\* copied by map, and slice makes a new array each time
merkleVerifyAt(heap, rootHash, merkleProof, leafData) ==
  [heap |-> ("proofBytes" :> heap[merkleProof]) @@ heap,
   ret |-> merkleVerify(heap[rootHash], heap[merkleProof], heap[leafData])]

FrameKeys == {sha256(<<1>>), sha256(<<2>>), blake2b(<<3>>)}

FrameProofs == {<< >>, <<[side |-> 0, hash |-> blake2b(<<9>>)]>>}

InitFrame ==
  /\ pc = "start"
  /\ ret = NoRet
  /\ \E key \in FrameKeys, m \in SignMessages, rnd \in Randoms, recs \in FrameProofs :
       args = [heap |-> [key |-> key,
                         publicKey |-> generateKeyPair(key).val.public,
                         message |-> m,
                         signature |-> sign(key, m, BytesIn(rnd)).val,
                         random |-> rnd,
                         proof |-> Serialize(recs),
                         root |-> RootFor("match", m, recs)],
               after |-> << >>,
               op |-> "none"]

\* publicKey({privateKey: key}), that is generateKeyPair(key)
GenerateKeyPairFrameCall ==
  /\ pc = "start"
  /\ pc' = "framed"
  /\ \E out \in {generateKeyPairAt(args.heap, "key")} :
       /\ args' = [args EXCEPT !.after = out.heap, !.op = "generateKeyPair"]
       /\ ret' = out.ret

\* signBytes({privateKey: key}, message, random), that is sign(key, message, random)
SignFrameCall ==
  /\ pc = "start"
  /\ pc' = "framed"
  /\ \E out \in {signAt(args.heap, "key", "message", "random")} :
       /\ args' = [args EXCEPT !.after = out.heap, !.op = "sign"]
       /\ ret' = out.ret

\* verifySignature(publicKey, message, signature), that is verify on the same arrays
VerifyFrameCall ==
  /\ pc = "start"
  /\ pc' = "framed"
  /\ \E out \in {verifyAt(args.heap, "publicKey", "message", "signature")} :
       /\ args' = [args EXCEPT !.after = out.heap, !.op = "verify"]
       /\ ret' = out.ret

MerkleVerifyFrameCall ==
  /\ pc = "start"
  /\ pc' = "framed"
  /\ \E out \in {merkleVerifyAt(args.heap, "root", "proof", "message")} :
       /\ args' = [args EXCEPT !.after = out.heap, !.op = "merkleVerify"]
       /\ ret' = out.ret

NextFrame ==
  \/ GenerateKeyPairFrameCall
  \/ SignFrameCall
  \/ VerifyFrameCall
  \/ MerkleVerifyFrameCall

SpecFrame == InitFrame /\ [][NextFrame]_vars

\* C25: the core operations have no side effect on their arguments:
\* generateKeyPair, sign, verify and merkleVerify leave every byte array of
\* the caller (key, public key, message, signature, random, proof, root)
\* as it was, because clamping and sign-bit stripping work on copies.
C25_ArgumentsUnchanged ==
  pc = "framed" =>
    \A name \in DOMAIN args.heap : args.after[name] = args.heap[name]

\* a verification that accepts a signature whose sign bit is set, made with
\* a key that clamping changes
C25_Witness ==
  /\ pc = "framed"
  /\ args.op = "verify"
  /\ ret = Ok(TRUE)
  /\ BitAnd(args.heap.signature[SIGNATURE_LEN], 128) = 128
  /\ args.after.sigCopy # args.heap.signature
  /\ clamp(args.heap.key) # args.heap.key

(***************************************************************************)
(* Specification of the crypto(options) factory: an instance is made with  *)
(* options (left out, or an object with an optional output format and an   *)
(* optional embedded seed) and one of its methods keyPair, publicKey,      *)
(* privateKey, address, signBytes or sharedKey is called.  A Base58 string *)
(* is the value Base58In(b) that base58Decode maps to the bytes b.         *)
(***************************************************************************)
ErrEmptySeed == "Empty seed is not allowed."

OutputOf(name) == [t |-> "output", name |-> name]

Options(output, seed) == [t |-> "options", output |-> output, seed |-> seed]

\* base58Encode(input) of a byte array
base58Encode(input) == Base58In(input)

\* !options || options.output === 'Base58'
EncodesOutput(options) == options = Undefined \/ options.output = OutputOf("Base58")

\* toOut(f)(...args), r being what f(...args) returns or throws; the value
\* returned is a Base58 string or the byte array itself
toOut(options, r) ==
  IF IsErr(r) THEN r
  ELSE IF EncodesOutput(options) THEN Ok(base58Encode(r.val))
  ELSE Ok(BytesIn(r.val))

\* toOutKey(f)(...args)
toOutKey(options, r) ==
  IF IsErr(r) THEN r
  ELSE IF EncodesOutput(options)
  THEN Ok([privateKey |-> base58Encode(r.val.privateKey),
           publicKey |-> base58Encode(r.val.publicKey)])
  ELSE Ok([privateKey |-> BytesIn(r.val.privateKey),
           publicKey |-> BytesIn(r.val.publicKey)])

\* options?.seed ?? undefined
EmbeddedSeed(options) == IF options = Undefined THEN Undefined ELSE options.seed

\* crypto(options): the instance, which is its options, or the error thrown
crypto(options) ==
  IF EmbeddedSeed(options) = StringIn(<< >>) THEN Err(ErrEmptySeed) ELSE Ok(options)

\* the method op of the instance made with options: the seed is the
\* embedded one when there is one (c(f, s)), the caller's otherwise
cryptoMethod(options, op, seed, other, random) ==
  The({CASE op = "keyPair" -> toOutKey(options, keyPair(s))
         [] op = "publicKey" -> toOut(options, publicKey(s))
         [] op = "privateKey" -> toOut(options, privateKey(s))
         [] op = "address" -> toOut(options, address(s, Undefined))
         [] op = "signBytes" ->
              toOut(options, signBytes(s, BytesIn(<<1, 2, 3, 4>>), BytesIn(random), << >>))
         [] op = "sharedKey" ->
              toOut(options, sharedKey(BytesIn(privateKey(seed).val),
                                       BytesIn(publicKey(other).val),
                                       BytesIn(<<1>>)))
       : s \in {IF EmbeddedSeed(options) # Undefined THEN EmbeddedSeed(options)
                ELSE seed}})

FactorySeeds == {StringIn(<<65>>), BytesIn(<<1>>)}

FactoryOutputs == {Undefined, OutputOf("Base58"), OutputOf("Bytes")}

FactoryOptions ==
  {Undefined}
    \cup {Options(o, s) : o \in FactoryOutputs,
                          s \in {Undefined, StringIn(<< >>)} \cup FactorySeeds}

FactoryOps == {"keyPair", "publicKey", "privateKey", "address", "signBytes", "sharedKey"}

InitFactory ==
  /\ pc = "start"
  /\ ret = NoRet
  /\ \E options \in FactoryOptions, op \in FactoryOps, seed \in FactorySeeds :
       args = [options |-> options, op |-> op, seed |-> seed]

CryptoCall ==
  /\ pc = "start"
  /\ pc' = "made"
  /\ ret' = crypto(args.options)
  /\ UNCHANGED args

MethodCall ==
  /\ pc = "made"
  /\ IsOk(ret)
  /\ pc' = "called"
  /\ ret' = cryptoMethod(ret.val, args.op, args.seed, BytesIn(<<2>>), Fill(RANDOM_LEN, 1))
  /\ UNCHANGED args

NextFactory == CryptoCall \/ MethodCall

SpecFactory == InitFactory /\ [][NextFactory]_vars

\* the kinds of the values of the result: Base58 strings, byte arrays
ResultKinds ==
  IF args.op = "keyPair" THEN {ret.val.privateKey.t, ret.val.publicKey.t}
  ELSE {ret.val.t}

\* the bytes of the values of the result, decoded when they are strings
ResultBytes(r) ==
  IF args.op = "keyPair"
  THEN <<fromIn(r.val.privateKey).val, fromIn(r.val.publicKey).val>>
  ELSE <<fromIn(r.val).val>>

\* the result of the same method of an instance made with output 'Bytes'
BytesResult ==
  cryptoMethod(Options(OutputOf("Bytes"), EmbeddedSeed(args.options)), args.op,
               args.seed, BytesIn(<<2>>), Fill(RANDOM_LEN, 1))

\* C26: the factory encodes the results of keyPair, publicKey, privateKey,
\* address, signBytes and sharedKey as Base58 strings whenever
\* options.output is not specified, both when options is left out and when
\* an options object sets only a seed, and returns raw bytes only when
\* output is 'Bytes'.
C26_Base58ByDefault ==
  pc = "called" =>
    /\ IsOk(ret)
    /\ IF args.options # Undefined /\ args.options.output = OutputOf("Bytes")
       THEN ResultKinds = {"bytes"}
       ELSE ResultKinds = {"base58"}
    /\ ResultBytes(ret) = ResultBytes(BytesResult)

\* What the code does: Base58 when options is left out or output is
\* 'Base58', raw bytes for every other options object.
C26_Base58WhenNoOptions ==
  pc = "called" =>
    /\ IsOk(ret)
    /\ IF args.options = Undefined \/ args.options.output = OutputOf("Base58")
       THEN ResultKinds = {"base58"}
       ELSE ResultKinds = {"bytes"}
    /\ ResultBytes(ret) = ResultBytes(BytesResult)

(***************************************************************************)
(* Specification of merkleVerify step by step: the check of the root hash  *)
(* length, then one step for each iteration of the loop that parses the    *)
(* proof, then the reduce and the comparison.  lastLen is the length of    *)
(* the remaining buffer before the last iteration, iterations the number   *)
(* of iterations made.                                                     *)
(***************************************************************************)
\* bytes after the last complete record, those of ProofTails and two records
\* whose declared size is all of, or more than, what is left
ParseTails == ProofTails \cup {<<1, 1>>, <<0, 5>>}

InitParse ==
  /\ pc = "start"
  /\ ret = NoRet
  /\ \E recs \in RecordLists, tail \in ParseTails, mode \in {"match", "short"} :
       args = [rootHash |-> RootFor(mode, <<1, 2, 3>>, recs),
               merkleProof |-> Serialize(recs) \o tail,
               leafData |-> <<1, 2, 3>>,
               proofBytes |-> << >>,
               proofsWithSide |-> << >>,
               lastLen |-> 0,
               iterations |-> 0]

\* the statements before the loop
MerkleEnterStep ==
  /\ pc = "start"
  /\ IF Len(args.rootHash) # ROOT_HASH_LEN
     THEN /\ pc' = "thrown"
          /\ ret' = Err(ErrRootHashLength)
          /\ UNCHANGED args
     ELSE /\ pc' = "loop"
          /\ args' = [args EXCEPT !.proofBytes = args.merkleProof]
          /\ UNCHANGED ret

\* one iteration of the while loop
MerkleLoopStep ==
  /\ pc = "loop"
  /\ Len(args.proofBytes) > 0
  /\ IF Len(args.proofBytes) < 2 \/ args.proofBytes[2] < 1
     THEN /\ pc' = "thrown"
          /\ ret' = Err(ErrWrongHashSize)
          /\ UNCHANGED args
     ELSE /\ \E size \in {args.proofBytes[2]} :
               args' = [args EXCEPT
                          !.proofsWithSide =
                             Append(@, <<IF args.proofBytes[1] = 0 THEN "L" ELSE "R",
                                         Slice(args.proofBytes, 2, 2 + size)>>),
                          !.proofBytes = SliceFrom(args.proofBytes, 2 + size),
                          !.lastLen = Len(args.proofBytes),
                          !.iterations = @ + 1]
          /\ UNCHANGED <<pc, ret>>

\* the end of the loop, the reduce and the comparison
MerkleFinishStep ==
  /\ pc = "loop"
  /\ Len(args.proofBytes) = 0
  /\ pc' = "done"
  /\ ret' = Ok(equalBytes(FoldProof(blake2b(concat(<<LEAF_PREFIX, args.leafData>>)),
                                    args.proofsWithSide, 1),
                          args.rootHash))
  /\ UNCHANGED args

NextParse == MerkleEnterStep \/ MerkleLoopStep \/ MerkleFinishStep

SpecParse == InitParse /\ [][NextParse]_vars

\* C27: merkleVerify terminates for every proof: each iteration of the
\* parsing loop either raises an error or shortens the remaining buffer by
\* at least 3 bytes, so the loop makes at most length/3 iterations.
C27_ShortensByThree ==
  /\ args.iterations > 0 => args.lastLen - Len(args.proofBytes) >= 3
  /\ 3 * args.iterations <= Len(args.merkleProof)

\* What the code guarantees: each iteration that raises no error shortens
\* the buffer by at least 2 bytes, there are at most length/2 iterations,
\* and the steps agree with merkleVerify.
C27_ShortensByTwo ==
  /\ args.iterations > 0 => args.lastLen - Len(args.proofBytes) >= 2
  /\ 2 * args.iterations <= Len(args.merkleProof)
  /\ pc \in {"done", "thrown"} =>
       ret = merkleVerify(args.rootHash, args.merkleProof, args.leafData)

(***************************************************************************)
(* Specification of encryptSeed and decryptSeed step by step: the loop of  *)
(* strengthenPassword, one step for each iteration, the loop of evpKdf,    *)
(* one step for each iteration, then the encryption or decryption.  A seed *)
(* is encrypted and the result decrypted with the same password and        *)
(* rounds.  md5 is a stand-in digest of 16 bytes; AES-CBC chains the block *)
(* function of the AES stand-in over PKCS#7 padded data; a Base64 string   *)
(* is the value that base64Decode maps to its bytes.                       *)
(***************************************************************************)
DEFAULT_ROUNDS == 5000

KDF_OUTPUT_LEN == 48

SALT_LEN == 8

MD5_LEN == 16

\* the loop of strengthenPassword is followed for at most this many
\* iterations
MaxIterations == 5001

md5(input) == Digest(8, input, MD5_LEN)

\* stringToBytes(str, 'raw'): the char code of each character as a byte
stringToBytesRaw(str) == [i \in 1..Len(str) |-> str[i] % 256] \o << >>

HexDigit(n) == IF n < 10 THEN 48 + n ELSE 87 + n

\* base16Encode(input): two lower-case hex digits for each byte
base16Encode(input) ==
  [i \in 1..(2 * Len(input)) |->
     HexDigit(IF i % 2 = 1 THEN input[(i + 1) \div 2] \div 16
              ELSE input[i \div 2] % 16)] \o << >>

base64Encode(input) == [t |-> "base64", b |-> input]

base64Decode(input) == input.b

\* the blocks of cbc(key, iv).encrypt: each block is xored with the last
\* ciphertext block and encrypted
RECURSIVE CbcEncryptBlocks(_, _, _)
CbcEncryptBlocks(key, last, data) ==
  IF Len(data) = 0 THEN << >>
  ELSE The({c \o CbcEncryptBlocks(key, c, SliceFrom(data, BLOCK_LEN))
            : c \in {EncryptBlock(key, XorBytes(Slice(data, 0, BLOCK_LEN), last))}})

RECURSIVE CbcDecryptBlocks(_, _, _)
CbcDecryptBlocks(key, last, data) ==
  IF Len(data) = 0 THEN << >>
  ELSE XorBytes(DecryptBlock(key, Slice(data, 0, BLOCK_LEN)), last)
         \o CbcDecryptBlocks(key, Slice(data, 0, BLOCK_LEN), SliceFrom(data, BLOCK_LEN))

\* aesEncrypt(data, key, 'CBC', iv)
cbcEncrypt(key, iv, data) ==
  IF ~ValidAesKey(key) THEN Err(ErrAesKey)
  ELSE IF Len(iv) # BLOCK_LEN THEN Err(ErrAesNonce)
  ELSE Ok(CbcEncryptBlocks(key, iv, PadPkcs7(data)))

\* aesDecrypt(encryptedData, key, 'CBC', iv)
cbcDecrypt(key, iv, data) ==
  IF ~ValidAesKey(key) THEN Err(ErrAesKey)
  ELSE IF Len(iv) # BLOCK_LEN THEN Err(ErrAesNonce)
  ELSE IF Len(data) = 0 \/ Len(data) % BLOCK_LEN # 0 THEN Err(ErrAesLength)
  ELSE The({IF plain[Len(plain)] <= 0 \/ plain[Len(plain)] > BLOCK_LEN
            THEN Err(ErrAesPadding)
            ELSE IF \E i \in 0..(plain[Len(plain)] - 1) :
                      plain[Len(plain) - i] # plain[Len(plain)]
            THEN Err(ErrAesPadding)
            ELSE Ok(Slice(plain, 0, Len(plain) - plain[Len(plain)]))
            : plain \in {CbcDecryptBlocks(key, iv, data)}})

RoundsOf(n) == [t |-> "number", n |-> n]

\* 'Salted__'
SaltedPrefix == <<83, 97, 108, 116, 101, 100, 95, 95>>

SeedStrings == {<<65>>, << >>}

Passwords == {<<112, 119>>}

Salts == {<<1, 2, 3, 4, 5, 6, 7, 8>>}

RoundsGiven == {Undefined, RoundsOf(0), RoundsOf(1), RoundsOf(3), RoundsOf(-1)}

InitSeedEnc ==
  /\ pc = "start"
  /\ ret = NoRet
  /\ \E seed \in SeedStrings, password \in Passwords, salt \in Salts,
        given \in RoundsGiven :
       args = [op |-> "encryptSeed", seed |-> seed, password |-> password,
               encryptionRounds |-> given, fresh |-> salt, encryptedSeed |-> NoRet,
               rounds |-> 0, passphrase |-> << >>, iterations |-> 0,
               salt |-> << >>, prev |-> << >>, blocks |-> << >>, kdfIterations |-> 0]

\* the call of strengthenPassword(password, encryptionRounds): rounds is
\* 5000 when encryptionRounds is left out
StrengthenEnterStep ==
  /\ pc = "start"
  /\ pc' = "strengthen"
  /\ args' = [args EXCEPT
                !.rounds = IF args.encryptionRounds = Undefined THEN DEFAULT_ROUNDS
                           ELSE args.encryptionRounds.n,
                !.passphrase = args.password,
                !.iterations = 0]
  /\ UNCHANGED ret

\* while (rounds--) with rounds not zero: one iteration
StrengthenLoopStep ==
  /\ pc = "strengthen"
  /\ args.rounds # 0
  /\ args.iterations < MaxIterations
  /\ args' = [args EXCEPT
                !.rounds = @ - 1,
                !.passphrase = base16Encode(sha256(stringToBytes(@))),
                !.iterations = @ + 1]
  /\ UNCHANGED <<pc, ret>>

\* while (rounds--) with rounds zero: the loop ends, the salt is drawn or
\* read and evpKdf is entered
StrengthenExitStep ==
  /\ pc = "strengthen"
  /\ args.rounds = 0
  /\ pc' = "kdf"
  /\ args' = [args EXCEPT
                !.rounds = @ - 1,
                !.salt = IF args.op = "encryptSeed" THEN args.fresh
                         ELSE Slice(base64Decode(args.encryptedSeed), SALT_LEN,
                                    2 * SALT_LEN),
                !.prev = << >>,
                !.blocks = << >>,
                !.kdfIterations = 0]
  /\ UNCHANGED ret

\* one iteration of the loop of evpKdf
EvpKdfLoopStep ==
  /\ pc = "kdf"
  /\ Len(args.blocks) < KDF_OUTPUT_LEN
  /\ \E prev \in {md5(concat(<<args.prev, stringToBytesRaw(args.passphrase), args.salt>>))} :
       args' = [args EXCEPT !.prev = prev, !.blocks = @ \o prev,
                            !.kdfIterations = @ + 1]
  /\ UNCHANGED <<pc, ret>>

\* the end of the loop of evpKdf and the rest of encryptSeed or decryptSeed
SeedFinishStep ==
  /\ pc = "kdf"
  /\ Len(args.blocks) >= KDF_OUTPUT_LEN
  /\ pc' = "done"
  /\ \E keyIv \in {Slice(args.blocks, 0, KDF_OUTPUT_LEN)} :
       ret' = IF args.op = "encryptSeed"
              THEN The({IF IsErr(encrypted) THEN encrypted
                        ELSE Ok(base64Encode(concat(<<SaltedPrefix, args.salt,
                                                      encrypted.val>>)))
                        : encrypted \in {cbcEncrypt(Slice(keyIv, 0, 32),
                                                    Slice(keyIv, 32, 48),
                                                    stringToBytes(args.seed))}})
              ELSE The({IF IsErr(plain) THEN plain ELSE Ok(bytesToString(plain.val))
                        : plain \in {cbcDecrypt(Slice(keyIv, 0, 32),
                                                Slice(keyIv, 32, 48),
                                                SliceFrom(base64Decode(args.encryptedSeed),
                                                          2 * SALT_LEN))}})
  /\ UNCHANGED args

\* decryptSeed(encryptedSeed, password, encryptionRounds) of what encryptSeed
\* returned
DecryptSeedEnterStep ==
  /\ pc = "done"
  /\ args.op = "encryptSeed"
  /\ IsOk(ret)
  /\ pc' = "strengthen"
  /\ args' = [args EXCEPT
                !.op = "decryptSeed",
                !.encryptedSeed = ret.val,
                !.rounds = IF args.encryptionRounds = Undefined THEN DEFAULT_ROUNDS
                           ELSE args.encryptionRounds.n,
                !.passphrase = args.password,
                !.iterations = 0]
  /\ ret' = NoRet

NextSeedEnc ==
  \/ StrengthenEnterStep
  \/ StrengthenLoopStep
  \/ StrengthenExitStep
  \/ EvpKdfLoopStep
  \/ SeedFinishStep
  \/ DecryptSeedEnterStep

SpecSeedEnc == InitSeedEnc /\ [][NextSeedEnc]_vars

\* the number of rounds asked for
RoundsAsked ==
  IF args.encryptionRounds = Undefined THEN DEFAULT_ROUNDS ELSE args.encryptionRounds.n

\* C29: encryptSeed and decryptSeed terminate for every value of
\* encryptionRounds: the loop of strengthenPassword makes exactly
\* encryptionRounds hash iterations (5000 by default) and then stops, and
\* the loop of evpKdf stops once 48 bytes have been produced.  No more
\* iterations are made than were asked for (none for a number below zero),
\* and exactly that many when the loop has ended.
C29_ExactRounds ==
  /\ args.iterations <= IF RoundsAsked < 0 THEN 0 ELSE RoundsAsked
  /\ pc \in {"kdf", "done"} => args.iterations = RoundsAsked
  /\ Len(args.blocks) < KDF_OUTPUT_LEN + MD5_LEN
  /\ pc = "done" => Len(args.blocks) = KDF_OUTPUT_LEN

\* What the code guarantees: the same for a number of rounds that is not
\* negative; with a negative number of rounds the loop of strengthenPassword
\* never ends.
C29_ExactNaturalRounds ==
  /\ RoundsAsked >= 0 =>
       /\ args.iterations <= RoundsAsked
       /\ pc \in {"kdf", "done"} => args.iterations = RoundsAsked
  /\ RoundsAsked < 0 =>
       /\ pc \in {"start", "strengthen"}
       /\ pc = "strengthen" => args.rounds = RoundsAsked - args.iterations
  /\ Len(args.blocks) < KDF_OUTPUT_LEN + MD5_LEN
  /\ pc = "done" => Len(args.blocks) = KDF_OUTPUT_LEN
  /\ (pc = "done" /\ args.op = "decryptSeed") => ret = Ok(args.seed)

====
